---- MODULE Spec2Model ----
(***************************************************************************)
(* A model of the any-file conversion core: the dispatcher convertFile     *)
(* with its two validators and its routing chain (lib/converters/index.ts),*)
(* the retry wrapper withRetry (lib/services/ocr-utils.ts), the OCR entry  *)
(* points extractTextFromImage and extractTextFromPDF with postprocessText *)
(* (lib/services/ocr-service.ts), the media strategies with their shared   *)
(* transcoder (lib/converters/media-converter.ts) and pdfToText            *)
(* (lib/converters/pdf-converter.ts), the threshold computation of the     *)
(* image pre-processing (lib/services/ocr-utils.ts), the wrap and paginate *)
(* loops of textToPdf and docxToPdf, and the convert page                  *)
(* (app/convert/page.tsx).                                                 *)
(*                                                                         *)
(* Strings the code inspects character by character (file names, format    *)
(* tags, extensions) are sequences of one-character strings, so that       *)
(* split("."), pop() and toLowerCase() are computed and not assumed.       *)
(***************************************************************************)
EXTENDS Integers, Sequences, FiniteSets, TLC

VARIABLES
  cf_pc,        \* convertFile: "idle", "awaiting" (suspended on the strategy), "settled"
  cf_file,      \* convertFile: the File argument, [name |-> characters]
  cf_source,    \* convertFile: the sourceFormat argument
  cf_target,    \* convertFile: the targetFormat argument
  cf_calls,     \* the strategy invocations made by the current call, in order
  cf_bytesRead, \* whether the current call has touched the file's bytes
  cf_thrown,    \* the value caught by convertFile's catch block, or NoError
  cf_outcome,   \* how the current call settled
  wr_pc,        \* withRetry: "idle", "calling" (awaiting the operation), "waiting"
                \*            (awaiting the backoff timer), "returned", "threw"
  wr_options,   \* withRetry: the options argument, [retries, delayMs]
  wr_attempt,   \* withRetry: the local variable attempt
  wr_lastError, \* withRetry: the local variable lastError
  wr_calls,     \* the invocations of operation: [start, end, outcome, value, error]
  wr_onRetry,   \* the attempt numbers handed to onRetry, in order
  wr_waits,     \* the delays handed to setTimeout: [set, delay]
  wr_timerDue,  \* when the pending backoff timer is due
  wr_result,    \* what withRetry settled with
  wr_now,       \* the time since withRetry was called, in ms
  ocr_pc,       \* extractTextFromImage: "idle", "preprocess", "upload", "parse",
                \*   "backoff", "fallbackTry", "fallbackCatch", "done", "failed"
  ocr_options,  \* extractTextFromImage: the options argument
  ocr_processed,\* extractTextFromImage: the local processedImage
  ocr_apiKey,   \* extractTextFromImage: the local apiKey
  ocr_store,    \* localStorage["deepseek_api_key"], null when absent
  ocr_trace,    \* what the current invocation has done, in order
  ocr_outcome,  \* how the current invocation settled
  ffmpegInstance, \* media-converter.ts: the module's transcoder, {} for null
  ffmpegLoaded, \* media-converter.ts: whether the transcoder's load succeeded
  ff_news,      \* how many times new FFmpeg() was evaluated
  ff_loadCalls, \* how many times ffmpegInstance.load was invoked
  ff_loadOks,   \* how many times ffmpegInstance.load resolved
  ff_fs,        \* the transcoder's file system: name -> {} or {file}
  md_sab,       \* whether SharedArrayBuffer is defined in this context
  md_started,   \* how many media calls were made so far
  md_pc,        \* per caller: where its media call is suspended
  md_call,      \* per caller: the function called and its arguments
  md_ffmpeg,    \* per caller: the local ffmpeg, {} while getFFmpeg has not returned
  md_data,      \* per caller: the local data, what readFile resolved with
  md_foreign,   \* per caller: what the call did to files another call wrote
  md_trace,     \* per caller: what the call has done, in order
  md_caught,    \* per caller: the value the call's catch block caught, or NoError
  md_outcome,   \* per caller: how the call settled
  pp_pc,        \* postprocessText: "idle", "returned"
  pp_text,      \* postprocessText: the text argument
  pp_result,    \* postprocessText: the text returned
  px_pc,        \* pdfToText / extractTextFromPDF: "idle", "page", "ocr", "done", "failed"
  px_fn,        \* which of the two functions was called
  px_pdf,       \* the loaded document
  px_i,         \* the loop variable i
  px_text,      \* the local fullText, extractedText or ocrText
  px_hasText,   \* extractTextFromPDF: the local hasText
  px_ocrPages,  \* the pages handed to extractTextFromImage, in order
  px_result,    \* how the call settled
  th_pc,        \* thresholding: "idle", "estimated", "applied"
  th_data,      \* thresholding: the data argument
  th_contrast,  \* applyContrastAndThreshold: the contrast argument, in tenths
  th_threshold, \* the threshold, estimated or passed in
  th_output,    \* applyContrastAndThreshold: the buffer returned
  pg_pc,        \* convert page: "unmounted", "mounted", "awaiting" (handleConversion
                \*   suspended on convertFile), "settled"
  pg_file,      \* convert page: the file of the file context, [name |-> characters]
  pg_target,    \* convert page: the targetFormat of the file context
  pg_status,    \* convert page: the state status
  pg_progress,  \* convert page: the state progress
  pg_error,     \* convert page: the state error
  pg_resultBlob,\* convert page: the state resultBlob
  pg_interval,  \* convert page: whether progressInterval is still set
  pg_download,  \* convert page: the download attribute of the last link clicked
  tp_pc,        \* textToPdf / docxToPdf: "idle", "lines" (in the loop over the
                \*   lines), "done"
  tp_fn,        \* which of the two functions was called
  tp_text,      \* the lines of the text the loop has taken so far
  tp_page,      \* the number of the page drawn on
  tp_yPosition, \* the local yPosition
  tp_drawn      \* the drawText / text calls made, in order: [page, y, words]

cf_vars == <<cf_pc, cf_file, cf_source, cf_target, cf_calls, cf_bytesRead, cf_thrown, cf_outcome>>

wr_vars == <<wr_pc, wr_options, wr_attempt, wr_lastError, wr_calls, wr_onRetry, wr_waits,
             wr_timerDue, wr_result, wr_now>>

ocr_vars == <<ocr_pc, ocr_options, ocr_processed, ocr_apiKey, ocr_store, ocr_trace, ocr_outcome>>

md_vars == <<ffmpegInstance, ffmpegLoaded, ff_news, ff_loadCalls, ff_loadOks, ff_fs, md_sab,
             md_started, md_pc, md_call, md_ffmpeg, md_data, md_foreign, md_trace, md_caught,
             md_outcome>>

pp_vars == <<pp_pc, pp_text, pp_result>>

px_vars == <<px_pc, px_fn, px_pdf, px_i, px_text, px_hasText, px_ocrPages, px_result>>

th_vars == <<th_pc, th_data, th_contrast, th_threshold, th_output>>

pg_vars == <<pg_pc, pg_file, pg_target, pg_status, pg_progress, pg_error, pg_resultBlob,
             pg_interval, pg_download>>

tp_vars == <<tp_pc, tp_fn, tp_text, tp_page, tp_yPosition, tp_drawn>>

vars == <<cf_vars, wr_vars, ocr_vars, md_vars, pp_vars, px_vars, th_vars, pg_vars, tp_vars>>

\* What the steps of convertFile, of a bare withRetry call, of
\* extractTextFromImage (which runs withRetry) and of the media strategies
\* leave alone.
cf_frame  == <<wr_vars, ocr_vars, md_vars, pp_vars, px_vars, th_vars, pg_vars, tp_vars>>
wr_frame  == <<cf_vars, ocr_vars, md_vars, pp_vars, px_vars, th_vars, pg_vars, tp_vars>>
ocr_frame == <<cf_vars, md_vars, pp_vars, px_vars, th_vars, pg_vars, tp_vars>>
md_frame  == <<cf_vars, wr_vars, ocr_vars, pp_vars, px_vars, th_vars, pg_vars, tp_vars>>
pp_frame  == <<cf_vars, wr_vars, ocr_vars, md_vars, px_vars, th_vars, pg_vars, tp_vars>>
px_frame  == <<cf_vars, wr_vars, ocr_vars, md_vars, pp_vars, th_vars, pg_vars, tp_vars>>
th_frame  == <<cf_vars, wr_vars, ocr_vars, md_vars, pp_vars, px_vars, pg_vars, tp_vars>>
pg_frame  == <<cf_vars, wr_vars, ocr_vars, md_vars, pp_vars, px_vars, th_vars, tp_vars>>
tp_frame  == <<cf_vars, wr_vars, ocr_vars, md_vars, pp_vars, px_vars, th_vars, pg_vars>>

----------------------------------------------------------------------------
(* Format tags, lib/types (src/unnamed/part_000).                          *)

pdf  == <<"p","d","f">>
docx == <<"d","o","c","x">>
xlsx == <<"x","l","s","x">>
txt  == <<"t","x","t">>
jpg  == <<"j","p","g">>
jpeg == <<"j","p","e","g">>
png  == <<"p","n","g">>
webp == <<"w","e","b","p">>
gif  == <<"g","i","f">>
mp3  == <<"m","p","3">>
wav  == <<"w","a","v">>
ogg  == <<"o","g","g">>
aac  == <<"a","a","c">>
flac == <<"f","l","a","c">>
m4a  == <<"m","4","a">>
mp4  == <<"m","p","4">>
webm == <<"w","e","b","m">>
avi  == <<"a","v","i">>
mov  == <<"m","o","v">>
mkv  == <<"m","k","v">>
flv  == <<"f","l","v">>

FileFormat ==
  { pdf, docx, xlsx, txt, jpg, jpeg, png, webp, gif,
    mp3, wav, ogg, aac, flac, m4a,
    mp4, webm, avi, mov, mkv, flv }

CONVERSION_OPTIONS ==
  << [from |-> pdf,  to |-> <<docx, txt, jpg, png>>],
     [from |-> docx, to |-> <<pdf, txt>>],
     [from |-> xlsx, to |-> <<pdf>>],
     [from |-> txt,  to |-> <<pdf, docx>>],
     [from |-> jpg,  to |-> <<png, webp, pdf, txt>>],
     [from |-> jpeg, to |-> <<png, webp, pdf, txt>>],
     [from |-> png,  to |-> <<jpg, webp, pdf, txt>>],
     [from |-> webp, to |-> <<jpg, png, pdf, txt>>],
     [from |-> gif,  to |-> <<png, jpg, webp>>],
     [from |-> mp3,  to |-> <<wav, ogg, aac, flac, m4a>>],
     [from |-> wav,  to |-> <<mp3, ogg, aac, flac, m4a>>],
     [from |-> ogg,  to |-> <<mp3, wav, aac, flac, m4a>>],
     [from |-> aac,  to |-> <<mp3, wav, ogg, flac, m4a>>],
     [from |-> flac, to |-> <<mp3, wav, ogg, aac, m4a>>],
     [from |-> m4a,  to |-> <<mp3, wav, ogg, aac, flac>>],
     [from |-> mp4,  to |-> <<webm, avi, mov, mkv, flv, mp3, wav, aac, m4a>>],
     [from |-> webm, to |-> <<mp4, avi, mov, mkv, mp3, wav, aac, m4a>>],
     [from |-> avi,  to |-> <<mp4, webm, mov, mkv, mp3, wav, aac, m4a>>],
     [from |-> mov,  to |-> <<mp4, webm, avi, mkv, mp3, wav, aac, m4a>>],
     [from |-> mkv,  to |-> <<mp4, webm, avi, mov, mp3, wav, aac, m4a>>],
     [from |-> flv,  to |-> <<mp4, webm, avi, mov, mp3, wav, aac, m4a>>] >>

----------------------------------------------------------------------------
(* JavaScript values and string primitives.                                *)

\* A value that is absent: JavaScript's undefined.
undefined == <<"undefined">>

Max(S) == CHOOSE x \in S : \A y \in S : y <= x

\* Array.prototype.includes
includes(array, item) == \E i \in 1..Len(array) : array[i] = item

\* String.prototype.split(".").pop(): the characters after the last dot, the
\* whole string when it holds no dot.
splitPop(name) ==
  LET dots == { i \in 1..Len(name) : name[i] = "." }
  IN  IF dots = {} THEN name ELSE SubSeq(name, Max(dots) + 1, Len(name))

\* String.prototype.toLowerCase on one character.
lowerChar(c) ==
  CASE c = "A" -> "a" [] c = "B" -> "b" [] c = "C" -> "c" [] c = "D" -> "d"
    [] c = "E" -> "e" [] c = "F" -> "f" [] c = "G" -> "g" [] c = "H" -> "h"
    [] c = "I" -> "i" [] c = "J" -> "j" [] c = "K" -> "k" [] c = "L" -> "l"
    [] c = "M" -> "m" [] c = "N" -> "n" [] c = "O" -> "o" [] c = "P" -> "p"
    [] c = "Q" -> "q" [] c = "R" -> "r" [] c = "S" -> "s" [] c = "T" -> "t"
    [] c = "U" -> "u" [] c = "V" -> "v" [] c = "W" -> "w" [] c = "X" -> "x"
    [] c = "Y" -> "y" [] c = "Z" -> "z" [] OTHER -> c

toLowerCase(s) == [i \in 1..Len(s) |-> lowerChar(s[i])]

----------------------------------------------------------------------------
(* Errors.  A thrown value is a record; cls tells what instanceof sees.    *)
(* A message built from a template literal keeps its parts: the template,  *)
(* the interpolated file name, formats and extension, and the message of   *)
(* the error it quotes.                                                    *)

NoText == <<>>

ErrorValue(cls, template, file, from, to, ext, cause, sourceFormat, targetFormat) ==
  [ cls |-> cls, template |-> template, file |-> file, from |-> from, to |-> to,
    ext |-> ext, cause |-> cause,
    sourceFormat |-> sourceFormat, targetFormat |-> targetFormat ]

\* new ConversionError(message, sourceFormat, targetFormat)
ConversionError(template, file, from, to, ext, cause, sourceFormat, targetFormat) ==
  ErrorValue("ConversionError", template, file, from, to, ext, cause, sourceFormat, targetFormat)

\* new Error(message), as the strategies raise it
PlainError(message) ==
  ErrorValue("Error", message, NoText, NoText, NoText, NoText, "", undefined, undefined)

\* A rejection that is no Error instance (imageToPdf rejects with the image's
\* error Event: img.onerror = reject).
NonErrorValue ==
  ErrorValue("Event", "", NoText, NoText, NoText, NoText, "", undefined, undefined)

\* No error: what a function that returned normally has thrown.
NoError ==
  ErrorValue("none", "", NoText, NoText, NoText, NoText, "", undefined, undefined)

\* error instanceof Error
instanceofError(e) == e.cls \in {"Error", "ConversionError", "OCRServiceError"}

\* error instanceof ConversionError
instanceofConversionError(e) == e.cls = "ConversionError"

----------------------------------------------------------------------------
(* The validators of convertFile, lib/converters/index.ts.                 *)

\* CONVERSION_OPTIONS.find((item) => item.from === sourceFormat): the indices
\* of the entries that match; find returns the first, undefined when none.
findOption(sourceFormat) ==
  { i \in 1..Len(CONVERSION_OPTIONS) : CONVERSION_OPTIONS[i].from = sourceFormat }

unsupportedError(sourceFormat, targetFormat) ==
  ConversionError("Conversion from ${sourceFormat} to ${targetFormat} is not supported",
                  NoText, sourceFormat, targetFormat, NoText, "",
                  sourceFormat, targetFormat)

\* A plausible slip: only the source format is looked up.
assertSupportedConversionSourceOnly(sourceFormat, targetFormat) ==
  IF findOption(sourceFormat) = {}
  THEN unsupportedError(sourceFormat, targetFormat)
  ELSE NoError

\* assertSupportedConversion: the error it throws, NoError when it returns.
\* if (!option || !option.to.includes(targetFormat)) throw ...
assertSupportedConversion(sourceFormat, targetFormat) ==
  LET hits == findOption(sourceFormat)
  IN  IF \/ hits = {}
         \/ ~includes(CONVERSION_OPTIONS[CHOOSE i \in hits : \A j \in hits : i <= j].to,
                      targetFormat)
      THEN unsupportedError(sourceFormat, targetFormat)
      ELSE NoError

FORMAT_ALIASES(sourceFormat) ==
  CASE sourceFormat = jpg  -> <<jpg, jpeg>>
    [] sourceFormat = jpeg -> <<jpeg, jpg>>
    [] OTHER -> <<>>

\* file.name.split(".").pop()?.toLowerCase()
extensionOf(file) == toLowerCase(splitPop(file.name))

\* new Set([sourceFormat, ...aliasExtensions])
allowedExtensions(sourceFormat) ==
  {sourceFormat} \cup { FORMAT_ALIASES(sourceFormat)[i] : i \in 1..Len(FORMAT_ALIASES(sourceFormat)) }

\* ensureFileMatchesFormat: the error it throws, NoError when it returns.
\* The third constructor argument, the error's targetFormat, is the extension.
ensureFileMatchesFormat(file, sourceFormat) ==
  LET extension == extensionOf(file)
  IN  IF extension = <<>> THEN NoError
      ELSE IF extension \notin allowedExtensions(sourceFormat)
      THEN ConversionError("File extension .${extension} does not match declared source format ${sourceFormat}",
                           NoText, sourceFormat, NoText, extension, "",
                           sourceFormat, extension)
      ELSE NoError

----------------------------------------------------------------------------
(* The routing chain of convertFile, lib/converters/index.ts 351-487.      *)

ImageSources  == {jpg, jpeg, png, webp, gif}
OcrSources    == {jpg, jpeg, png, webp}
AudioFormats  == {mp3, wav, ogg, aac, flac, m4a}
VideoFormats  == {mp4, webm, avi, mov, mkv, flv}

Rule(name, sources, targets) == [rule |-> name, sources |-> sources, targets |-> targets]

\* A plausible slip: the image-to-PDF rule forgets its target test, so it also
\* takes the pairs of the two image rules after it.
RoutingRulesLooseImageRule ==
  << Rule("docxToPdf",   {docx}, {pdf}),
     Rule("docxToText",  {docx}, {txt}),
     Rule("textToPdf",   {txt},  {pdf}),
     Rule("pdfToImages", {pdf},  {jpg, png}),
     Rule("pdfToText",   {pdf},  {txt}),
     Rule("pdfToDocx",   {pdf},  {docx}),
     Rule("pdfToXlsx",   {pdf},  {xlsx}),
     Rule("imageToPdf",  ImageSources, FileFormat),
     Rule("imageToText", OcrSources,   {txt}),
     Rule("convertImage", ImageSources, ImageSources),
     Rule("convertAudio", AudioFormats, AudioFormats),
     Rule("extractAudioFromVideo", VideoFormats, AudioFormats),
     Rule("convertVideo", VideoFormats, VideoFormats) >>

\* The if-statements of the try block, in source order.  The rule pdfToXlsx is
\* the branch that throws "PDF to XLSX conversion is not yet implemented".
RoutingRules ==
  << Rule("docxToPdf",   {docx}, {pdf}),
     Rule("docxToText",  {docx}, {txt}),
     Rule("textToPdf",   {txt},  {pdf}),
     Rule("pdfToImages", {pdf},  {jpg, png}),
     Rule("pdfToText",   {pdf},  {txt}),
     Rule("pdfToDocx",   {pdf},  {docx}),
     Rule("pdfToXlsx",   {pdf},  {xlsx}),
     Rule("imageToPdf",  ImageSources, {pdf}),
     Rule("imageToText", OcrSources,   {txt}),
     Rule("convertImage", ImageSources, ImageSources),
     Rule("convertAudio", AudioFormats, AudioFormats),
     Rule("extractAudioFromVideo", VideoFormats, AudioFormats),
     Rule("convertVideo", VideoFormats, VideoFormats) >>

\* The if-statements whose condition the pair satisfies.
matchingRules(sourceFormat, targetFormat) ==
  { i \in 1..Len(RoutingRules) :
      /\ sourceFormat \in RoutingRules[i].sources
      /\ targetFormat \in RoutingRules[i].targets }

\* The branch the chain takes: the first if-statement that matches, and the
\* final throw ("notImplemented") when none does.
route(sourceFormat, targetFormat) ==
  LET hits == matchingRules(sourceFormat, targetFormat)
  IN  IF hits = {} THEN "notImplemented"
      ELSE RoutingRules[CHOOSE i \in hits : \A j \in hits : i <= j].rule

\* The branches that call a strategy function (the others throw at once).
Strategies ==
  { "docxToPdf", "docxToText", "textToPdf", "pdfToImages", "pdfToText", "pdfToDocx",
    "imageToPdf", "imageToText", "convertImage", "convertAudio",
    "extractAudioFromVideo", "convertVideo" }

\* The strategies that are called with (file, targetFormat); the rest get (file).
TakesTarget == { "pdfToImages", "convertImage", "convertAudio", "extractAudioFromVideo", "convertVideo" }

\* A plausible slip: the final throw does not interpolate the pair.
notImplementedErrorNoPair(sourceFormat, targetFormat) ==
  ConversionError("Conversion from ${sourceFormat} to ${targetFormat} is not yet implemented",
                  NoText, NoText, NoText, NoText, "", sourceFormat, targetFormat)

notImplementedError(sourceFormat, targetFormat) ==
  ConversionError("Conversion from ${sourceFormat} to ${targetFormat} is not yet implemented",
                  NoText, sourceFormat, targetFormat, NoText, "", sourceFormat, targetFormat)

pdfToXlsxError(sourceFormat, targetFormat) ==
  ConversionError("PDF to XLSX conversion is not yet implemented",
                  NoText, NoText, NoText, NoText, "", sourceFormat, targetFormat)

noPagesError(sourceFormat, targetFormat) ==
  ConversionError("Unable to render PDF pages",
                  NoText, NoText, NoText, NoText, "", sourceFormat, targetFormat)

\* file.name || "file"
nameOrFile(file) == IF file.name = <<>> THEN <<"f","i","l","e">> ELSE file.name

\* error instanceof Error ? error.message : "Unknown error"
messageOf(error) == IF instanceofError(error) THEN error.template ELSE "Unknown error"

\* A plausible slip: every caught value is wrapped, a ConversionError too.
catchBlockWrapsAll(error, file, sourceFormat, targetFormat) ==
  ConversionError("Failed to convert ${file.name} from ${sourceFormat} to ${targetFormat}: ${cause}",
                  nameOrFile(file), sourceFormat, targetFormat, NoText, messageOf(error),
                  sourceFormat, targetFormat)

\* The catch block of convertFile: the error the call rejects with.
catchBlock(error, file, sourceFormat, targetFormat) ==
  IF instanceofConversionError(error) THEN error
  ELSE ConversionError("Failed to convert ${file.name} from ${sourceFormat} to ${targetFormat}: ${cause}",
                       nameOrFile(file), sourceFormat, targetFormat, NoText, messageOf(error),
                       sourceFormat, targetFormat)

----------------------------------------------------------------------------
(* convertFile, lib/converters/index.ts 347-501.                           *)

\* A format argument that is no member of FileFormat: the type is erased at
\* run time, so the function can be handed any string.
bmp == <<"b","m","p">>

FormatArguments == FileFormat \cup {bmp}

\* The most page images pdfToImages returns in the model.
MaxImages == 2

\* File names: one per format, and the shapes the extension test can meet
\* (upper case, several dots, no dot, a trailing dot, a leading dot, empty).
FileNames ==
  { <<"a", ".">> \o f : f \in FormatArguments }
  \cup { <<"A", ".", "P", "D", "F">>,
         <<"a", ".", "J", "P", "G">>,
         <<"a", ".", "J", "p", "e", "g">>,
         <<"a", ".", "b", ".">> \o png,
         <<"a", ".">> \o pdf \o <<".">> \o txt,
         <<"a">>,
         pdf,
         <<"J", "P", "G">>,
         <<"a", ".">>,
         <<"a", ".">> \o pdf \o <<".">>,
         <<".">> \o pdf,
         <<>> }

Files == { [name |-> n] : n \in FileNames }

\* What a strategy can reject with: an Error, or a value that is no Error.
StrategyRejections == { PlainError("strategy failed"), NonErrorValue }

NoOutcome == [kind |-> "none", error |-> NoError, blob |-> "none"]
Rejected(e) == [kind |-> "error", error |-> e, blob |-> "none"]
Resolved(b) == [kind |-> "blob", error |-> NoError, blob |-> b]

NoFile == [name |-> <<>>]

ConvertIdle ==
  /\ cf_pc = "idle"
  /\ cf_file = NoFile
  /\ cf_source = undefined
  /\ cf_target = undefined
  /\ cf_calls = <<>>
  /\ cf_bytesRead = FALSE
  /\ cf_thrown = NoError
  /\ cf_outcome = NoOutcome

\* convertFile(file, sourceFormat, targetFormat) up to its first suspension:
\* the two validators, then the routing chain, which either calls one strategy
\* and awaits it or throws inside the try block.
ConvertFile(file, sourceFormat, targetFormat) ==
  /\ cf_pc = "idle"
  /\ cf_file' = file
  /\ cf_source' = sourceFormat
  /\ cf_target' = targetFormat
  /\ LET unsupported == assertSupportedConversion(sourceFormat, targetFormat)
         mismatch    == ensureFileMatchesFormat(file, sourceFormat)
         branch      == route(sourceFormat, targetFormat)
         thrown      == IF branch = "pdfToXlsx"
                        THEN pdfToXlsxError(sourceFormat, targetFormat)
                        ELSE notImplementedError(sourceFormat, targetFormat)
     IN  IF unsupported.cls # "none"
         THEN /\ cf_pc' = "settled"
              /\ cf_outcome' = Rejected(unsupported)
              /\ UNCHANGED <<cf_calls, cf_bytesRead, cf_thrown>>
         ELSE IF mismatch.cls # "none"
         THEN /\ cf_pc' = "settled"
              /\ cf_outcome' = Rejected(mismatch)
              /\ UNCHANGED <<cf_calls, cf_bytesRead, cf_thrown>>
         ELSE IF branch \in Strategies
         THEN /\ cf_pc' = "awaiting"
              /\ cf_calls' = Append(cf_calls,
                               [ strategy |-> branch, file |-> file,
                                 target |-> IF branch \in TakesTarget
                                            THEN targetFormat ELSE undefined ])
              /\ cf_bytesRead' = TRUE
              /\ UNCHANGED <<cf_thrown, cf_outcome>>
         ELSE /\ cf_pc' = "settled"
              /\ cf_thrown' = thrown
              /\ cf_outcome' = Rejected(catchBlock(thrown, file, sourceFormat, targetFormat))
              /\ UNCHANGED <<cf_calls, cf_bytesRead>>
  /\ UNCHANGED cf_frame

\* The awaited strategy resolves.  pdfToImages resolves to an array of page
\* images: an empty one makes the routing code throw, otherwise images[0] is
\* returned.  Every other strategy's value is returned as it is.
StrategyResolves(images) ==
  /\ cf_pc = "awaiting"
  /\ cf_pc' = "settled"
  /\ LET strategy == cf_calls[Len(cf_calls)].strategy
         thrown   == noPagesError(cf_source, cf_target)
     IN  IF strategy = "pdfToImages" /\ images = 0
         THEN /\ cf_thrown' = thrown
              /\ cf_outcome' = Rejected(catchBlock(thrown, cf_file, cf_source, cf_target))
         ELSE /\ cf_outcome' = Resolved(strategy)
              /\ UNCHANGED cf_thrown
  /\ UNCHANGED <<cf_file, cf_source, cf_target, cf_calls, cf_bytesRead>>
  /\ UNCHANGED cf_frame

\* The awaited strategy rejects: the catch block decides what the call fails with.
StrategyRejects(error) ==
  /\ cf_pc = "awaiting"
  /\ cf_pc' = "settled"
  /\ cf_thrown' = error
  /\ cf_outcome' = Rejected(catchBlock(error, cf_file, cf_source, cf_target))
  /\ UNCHANGED <<cf_file, cf_source, cf_target, cf_calls, cf_bytesRead>>
  /\ UNCHANGED cf_frame

\* The caller starts over: the dispatcher keeps nothing between calls.
ConvertReturns ==
  /\ cf_pc = "settled"
  /\ cf_pc' = "idle"
  /\ cf_file' = NoFile
  /\ cf_source' = undefined
  /\ cf_target' = undefined
  /\ cf_calls' = <<>>
  /\ cf_bytesRead' = FALSE
  /\ cf_thrown' = NoError
  /\ cf_outcome' = NoOutcome
  /\ UNCHANGED cf_frame

ConvertNext ==
  \/ /\ cf_pc = "idle"
     /\ \E file \in Files, sourceFormat \in FormatArguments, targetFormat \in FormatArguments :
          ConvertFile(file, sourceFormat, targetFormat)
  \/ \E images \in 0..MaxImages : StrategyResolves(images)
  \/ \E error \in StrategyRejections : StrategyRejects(error)
  \/ ConvertReturns


----------------------------------------------------------------------------
(* withRetry, lib/services/ocr-utils.ts 53-76.                             *)

\* The largest options.retries and options.delayMs a bare call is given.
MaxRetries == 2
MaxDelayMs == 2

\* The longest an operation takes to settle, and the longest a timer callback
\* runs after its due time, in ms.
MaxOpTime == 1
MaxLate == 1

\* What the operation can reject with: an Error, or a value that is no Error.
OperationRejections == { PlainError("first failure"), NonErrorValue }

\* What the operation can resolve to.
OperationValues == { "ok" }

NotSettled == [kind |-> "none", value |-> "none", error |-> NoError]
Returned(v) == [kind |-> "value", value |-> v, error |-> NoError]
Thrown(e)   == [kind |-> "error", value |-> "none", error |-> e]

RetryIdle ==
  /\ wr_pc = "idle"
  /\ wr_options = [retries |-> 0, delayMs |-> 0]
  /\ wr_attempt = 0
  /\ wr_lastError = NoError
  /\ wr_calls = <<>>
  /\ wr_onRetry = <<>>
  /\ wr_waits = <<>>
  /\ wr_timerDue = 0
  /\ wr_result = NotSettled
  /\ wr_now = 0

\* A plausible slip: the test for the last attempt is off by one.
exhaustedOffByOne(attempt, retries) == attempt + 1 = retries

\* if (attempt === options.retries) break
exhausted(attempt, retries) == attempt = retries

\* A plausible slip: the delay is not scaled by the attempt number.
backoffDelayConstant(delayMs, attempt) == delayMs

\* options.delayMs * (attempt + 1)
backoffDelay(delayMs, attempt) == delayMs * (attempt + 1)

\* throw lastError instanceof Error ? lastError : new Error("Operation failed after retries")
finalError(lastError) ==
  IF instanceofError(lastError) THEN lastError
  ELSE PlainError("Operation failed after retries")

\* operation() is called: one more invocation, started now.
invoke(calls, now) ==
  Append(calls, [start |-> now, end |-> now, outcome |-> "pending",
                 value |-> "none", error |-> NoError])

\* The pending invocation settles.
settle(calls, now, outcome, value, error) ==
  [calls EXCEPT ![Len(calls)] =
     [@ EXCEPT !.end = now, !.outcome = outcome, !.value = value, !.error = error]]

\* withRetry(operation, options, onRetry) up to its first suspension: the
\* locals are set, the while condition is tested and operation is called.
retryBegins(retries, delayMs) ==
  /\ wr_pc = "idle"
  /\ wr_options' = [retries |-> retries, delayMs |-> delayMs]
  /\ wr_attempt' = 0
  /\ wr_lastError' = NoError
  /\ wr_now' = 0
  /\ IF 0 <= retries
     THEN /\ wr_pc' = "calling"
          /\ wr_calls' = invoke(<<>>, 0)
          /\ wr_result' = NotSettled
     ELSE /\ wr_pc' = "threw"
          /\ wr_calls' = <<>>
          /\ wr_result' = Thrown(finalError(NoError))
  /\ wr_onRetry' = <<>>
  /\ wr_waits' = <<>>
  /\ wr_timerDue' = 0

\* The awaited operation resolves after elapsed ms: return await operation().
retryOperationResolves(value, elapsed) ==
  /\ wr_pc = "calling"
  /\ wr_now' = wr_now + elapsed
  /\ wr_calls' = settle(wr_calls, wr_now', "resolved", value, NoError)
  /\ wr_pc' = "returned"
  /\ wr_result' = Returned(value)
  /\ UNCHANGED <<wr_options, wr_attempt, wr_lastError, wr_onRetry, wr_waits, wr_timerDue>>

\* The awaited operation rejects after elapsed ms: the catch block records the
\* error and either leaves the loop, which throws, or calls onRetry and
\* starts the backoff timer.
retryOperationRejects(error, elapsed) ==
  /\ wr_pc = "calling"
  /\ wr_now' = wr_now + elapsed
  /\ wr_calls' = settle(wr_calls, wr_now', "rejected", "none", error)
  /\ wr_lastError' = error
  /\ IF exhausted(wr_attempt, wr_options.retries)
     THEN /\ wr_pc' = "threw"
          /\ wr_result' = Thrown(finalError(error))
          /\ UNCHANGED <<wr_onRetry, wr_waits, wr_timerDue>>
     ELSE /\ wr_pc' = "waiting"
          /\ wr_onRetry' = Append(wr_onRetry, wr_attempt + 1)
          /\ wr_waits' = Append(wr_waits,
                           [set |-> wr_now', delay |-> backoffDelay(wr_options.delayMs, wr_attempt)])
          /\ wr_timerDue' = wr_now' + backoffDelay(wr_options.delayMs, wr_attempt)
          /\ UNCHANGED wr_result
  /\ UNCHANGED <<wr_options, wr_attempt>>

\* The backoff timer fires, at its due time or up to late ms after it:
\* attempt++ and the while condition is tested again.
retryTimerFires(late) ==
  /\ wr_pc = "waiting"
  /\ wr_now' = wr_timerDue + late
  /\ wr_attempt' = wr_attempt + 1
  /\ IF wr_attempt' <= wr_options.retries
     THEN /\ wr_pc' = "calling"
          /\ wr_calls' = invoke(wr_calls, wr_now')
          /\ wr_result' = NotSettled
     ELSE /\ wr_pc' = "threw"
          /\ wr_calls' = wr_calls
          /\ wr_result' = Thrown(finalError(wr_lastError))
  /\ UNCHANGED <<wr_options, wr_lastError, wr_onRetry, wr_waits, wr_timerDue>>

\* The frame of the call is dropped once it has settled.
retryEnds ==
  /\ wr_pc \in {"returned", "threw"}
  /\ wr_pc' = "idle"
  /\ wr_options' = [retries |-> 0, delayMs |-> 0]
  /\ wr_attempt' = 0
  /\ wr_lastError' = NoError
  /\ wr_calls' = <<>>
  /\ wr_onRetry' = <<>>
  /\ wr_waits' = <<>>
  /\ wr_timerDue' = 0
  /\ wr_result' = NotSettled
  /\ wr_now' = 0

\* A bare withRetry call, as the unit tests make it.
WithRetry(retries, delayMs) == retryBegins(retries, delayMs) /\ UNCHANGED wr_frame

OperationResolves(value, elapsed) == retryOperationResolves(value, elapsed) /\ UNCHANGED wr_frame

OperationRejects(error, elapsed) == retryOperationRejects(error, elapsed) /\ UNCHANGED wr_frame

TimerFires(late) == retryTimerFires(late) /\ UNCHANGED wr_frame

WithRetrySettled == retryEnds /\ UNCHANGED wr_frame

RetryNext ==
  \/ \E retries \in 0..MaxRetries, delayMs \in 0..MaxDelayMs : WithRetry(retries, delayMs)
  \/ \E value \in OperationValues, elapsed \in 0..MaxOpTime : OperationResolves(value, elapsed)
  \/ \E error \in OperationRejections, elapsed \in 0..MaxOpTime : OperationRejects(error, elapsed)
  \/ \E late \in 0..MaxLate : TimerFires(late)
  \/ WithRetrySettled

----------------------------------------------------------------------------
(* The credential store, lib/utils/storage.ts.                             *)

\* localStorage.getItem of a key that is not set.
null == <<"null">>

\* The strings the settings page can store as the key: an empty one and a key.
StoredKeys == { <<>>, <<"k">> }

\* getDeepSeekApiKey(): the stored string, null when there is none.
getDeepSeekApiKey(store) == store

----------------------------------------------------------------------------
(* DeepSeekOCRService.extractTextFromImage, lib/services/ocr-service.ts.   *)

DEFAULT_RETRY_ATTEMPTS == 2
DEFAULT_RETRY_DELAY_MS == 300

\* The largest options.retryAttempts and options.retryDelayMs a caller passes.
MaxRetryAttempts == 1
MaxRetryDelayMs == 1

\* An optional field is the empty set when absent and {v} when it holds v.
\* x ?? fallback
nullish(x, fallback) == IF x = {} THEN fallback ELSE CHOOSE v \in x : TRUE

OCROptions ==
  [ enhanceImage : BOOLEAN,
    retryAttempts : {{}} \cup { {n} : n \in 0..MaxRetryAttempts },
    retryDelayMs : {{}} \cup { {d} : d \in 1..MaxRetryDelayMs } ]

NoOptions == [enhanceImage |-> FALSE, retryAttempts |-> {}, retryDelayMs |-> {}]

\* The images of one invocation: the argument and preprocessImage's result.
imageBlob == <<"imageBlob">>
enhanced == <<"enhanced">>
Unset == <<"unset">>
NoArg == <<"-">>

Event(ev, arg) == [ev |-> ev, arg |-> arg]

OCRServiceError(message) ==
  ErrorValue("OCRServiceError", message, NoText, NoText, NoText, NoText, "", undefined, undefined)

\* What fetch and response.json() reject with.
FetchError == PlainError("Failed to fetch")

OcrPending == [kind |-> "none", by |-> "none", error |-> NoError]
OcrResult(by) == [kind |-> "result", by |-> by, error |-> NoError]
OcrFailure(e) == [kind |-> "error", by |-> "none", error |-> e]

OcrIdle ==
  /\ ocr_pc = "idle"
  /\ ocr_options = NoOptions
  /\ ocr_processed = Unset
  /\ ocr_apiKey = Unset
  /\ ocr_trace = <<>>
  /\ ocr_outcome = OcrPending

\* getApiKey(): getDeepSeekApiKey() || ""
getApiKey(store) ==
  IF getDeepSeekApiKey(store) \in {null, <<>>} THEN <<>> ELSE getDeepSeekApiKey(store)

\* A plausible slip: only a missing entry counts as "no key".
noApiKeyNullOnly(apiKey) == apiKey = null

\* if (!apiKey)
noApiKey(apiKey) == apiKey = <<>>

\* A plausible slip: the catch block reports the error instead of falling back.
catchExtractionRethrows(trace, error) ==
  [pc |-> "failed", trace |-> trace, outcome |-> OcrFailure(error)]

\* The catch block of extractTextFromImage: log, then
\* return await this.fallbackOCR(imageBlob, options).
catchExtraction(trace, error) ==
  [ pc |-> "fallbackCatch",
    trace |-> Append(trace, Event("fallbackOCR", imageBlob)),
    outcome |-> OcrPending ]

\* The code after processedImage is known, up to the next suspension: read the
\* key, then either call fallbackOCR(processedImage) or enter withRetry, whose
\* first attempt starts runDeepSeekOCR, which issues the upload request.
afterPreprocess(processedImage, trace, options) ==
  LET stored == getDeepSeekApiKey(ocr_store)
      apiKey == getApiKey(ocr_store)
      read   == Append(trace, Event("getDeepSeekApiKey", stored))
      caught == catchExtraction(Append(read, Event("withRetry", NoArg)),
                                PlainError("Operation failed after retries"))
  IN  /\ ocr_processed' = processedImage
      /\ ocr_apiKey' = apiKey
      /\ IF noApiKey(apiKey)
         THEN /\ ocr_pc' = "fallbackTry"
              /\ ocr_trace' = Append(read, Event("fallbackOCR", processedImage))
              /\ ocr_outcome' = OcrPending
              /\ UNCHANGED wr_vars
         ELSE /\ retryBegins(nullish(options.retryAttempts, DEFAULT_RETRY_ATTEMPTS),
                             nullish(options.retryDelayMs, DEFAULT_RETRY_DELAY_MS))
              /\ IF wr_pc' = "calling"
                 THEN /\ ocr_pc' = "upload"
                      /\ ocr_trace' = read \o << Event("withRetry", NoArg),
                                                 Event("upload", processedImage) >>
                      /\ ocr_outcome' = OcrPending
                 ELSE /\ ocr_pc' = caught.pc
                      /\ ocr_trace' = caught.trace
                      /\ ocr_outcome' = caught.outcome

\* extractTextFromImage(imageBlob, options) up to its first suspension.
ExtractTextFromImage(options) ==
  /\ ocr_pc = "idle"
  /\ ocr_options' = options
  /\ IF options.enhanceImage
     THEN /\ ocr_pc' = "preprocess"
          /\ ocr_trace' = << Event("preprocessImage", imageBlob) >>
          /\ UNCHANGED <<ocr_processed, ocr_apiKey, ocr_outcome, wr_vars>>
     ELSE afterPreprocess(imageBlob, <<>>, options)
  /\ UNCHANGED <<ocr_store, ocr_frame>>

\* preprocessImage resolves with the enhanced image.
PreprocessResolves ==
  /\ ocr_pc = "preprocess"
  /\ afterPreprocess(enhanced, Append(ocr_trace, Event("preprocessImage:resolved", enhanced)),
                     ocr_options)
  /\ UNCHANGED <<ocr_options, ocr_store, ocr_frame>>

\* preprocessImage rejects (no canvas context, image load or encoding failure).
PreprocessRejects ==
  /\ ocr_pc = "preprocess"
  /\ LET caught == catchExtraction(Append(ocr_trace, Event("preprocessImage:rejected", NoArg)),
                                   OCRServiceError("Failed to load image"))
     IN  /\ ocr_pc' = caught.pc
         /\ ocr_trace' = caught.trace
         /\ ocr_outcome' = caught.outcome
  /\ UNCHANGED <<ocr_options, ocr_processed, ocr_apiKey, ocr_store, wr_vars, ocr_frame>>

\* runDeepSeekOCR has rejected and withRetry's catch has run: either withRetry
\* threw, which the catch block of extractTextFromImage handles, or it waits.
afterAttemptFailed(trace) ==
  LET caught == catchExtraction(Append(trace, Event("withRetry:threw", NoArg)),
                                wr_result'.error)
  IN  IF wr_pc' = "threw"
      THEN /\ ocr_pc' = caught.pc
           /\ ocr_trace' = caught.trace
           /\ ocr_outcome' = caught.outcome
      ELSE /\ ocr_pc' = "backoff"
           /\ ocr_trace' = trace
           /\ ocr_outcome' = OcrPending

\* The upload request settles: a 2xx response with a file id lets
\* runDeepSeekOCR issue the parse request; a non-2xx response, a network
\* error or an unreadable body makes it reject.
UploadResponds(response, elapsed) ==
  /\ ocr_pc = "upload"
  /\ IF response = "ok"
     THEN /\ ocr_pc' = "parse"
          /\ ocr_trace' = Append(ocr_trace, Event("parse", NoArg))
          /\ UNCHANGED <<ocr_outcome, wr_vars>>
     ELSE /\ retryOperationRejects(IF response = "notOk"
                                   THEN OCRServiceError("Upload failed")
                                   ELSE FetchError, elapsed)
          /\ afterAttemptFailed(Append(ocr_trace, Event("runDeepSeekOCR:rejected", NoArg)))
  /\ UNCHANGED <<ocr_options, ocr_processed, ocr_apiKey, ocr_store, ocr_frame>>

\* The parse request settles.  A 2xx response resolves runDeepSeekOCR and
\* withRetry returns; postprocessText then runs on the result's text and
\* throws a TypeError when the body is not the object the code expects.
ParseResponds(response, elapsed) ==
  /\ ocr_pc = "parse"
  /\ IF response = "ok"
     THEN /\ retryOperationResolves("ok", elapsed)
          /\ ocr_pc' = "done"
          /\ ocr_trace' = ocr_trace \o << Event("withRetry:returned", NoArg),
                                          Event("postprocessText", NoArg) >>
          /\ ocr_outcome' = OcrResult("deepseek")
     ELSE IF response = "malformed"
     THEN /\ retryOperationResolves("ok", elapsed)
          /\ LET caught == catchExtraction(
                             ocr_trace \o << Event("withRetry:returned", NoArg),
                                             Event("postprocessText:threw", NoArg) >>,
                             PlainError("Cannot read properties of null"))
             IN  /\ ocr_pc' = caught.pc
                 /\ ocr_trace' = caught.trace
                 /\ ocr_outcome' = caught.outcome
     ELSE /\ retryOperationRejects(IF response = "notOk"
                                   THEN OCRServiceError("Parse failed")
                                   ELSE FetchError, elapsed)
          /\ afterAttemptFailed(Append(ocr_trace, Event("runDeepSeekOCR:rejected", NoArg)))
  /\ UNCHANGED <<ocr_options, ocr_processed, ocr_apiKey, ocr_store, ocr_frame>>

\* The backoff timer of withRetry fires: the next attempt starts
\* runDeepSeekOCR again, on the same processedImage.
BackoffEnds(late) ==
  /\ ocr_pc = "backoff"
  /\ retryTimerFires(late)
  /\ LET caught == catchExtraction(Append(ocr_trace, Event("withRetry:threw", NoArg)),
                                   wr_result'.error)
     IN  IF wr_pc' = "calling"
         THEN /\ ocr_pc' = "upload"
              /\ ocr_trace' = Append(ocr_trace, Event("upload", ocr_processed))
              /\ ocr_outcome' = OcrPending
         ELSE /\ ocr_pc' = caught.pc
              /\ ocr_trace' = caught.trace
              /\ ocr_outcome' = caught.outcome
  /\ UNCHANGED <<ocr_options, ocr_processed, ocr_apiKey, ocr_store, ocr_frame>>

\* fallbackOCR resolves: its result is returned, from the try block or from
\* the catch block.
FallbackResolves ==
  /\ ocr_pc \in {"fallbackTry", "fallbackCatch"}
  /\ ocr_pc' = "done"
  /\ ocr_trace' = Append(ocr_trace, Event("fallbackOCR:resolved", NoArg))
  /\ ocr_outcome' = OcrResult("tesseract")
  /\ UNCHANGED <<ocr_options, ocr_processed, ocr_apiKey, ocr_store, wr_vars, ocr_frame>>

\* fallbackOCR rejects with its OCRServiceError.  Awaited in the try block
\* (the no-key path) the rejection is caught by the catch block; awaited in
\* the catch block it is the rejection of extractTextFromImage.
FallbackRejects ==
  /\ ocr_pc \in {"fallbackTry", "fallbackCatch"}
  /\ LET error  == OCRServiceError("OCR extraction failed")
         trace  == Append(ocr_trace, Event("fallbackOCR:rejected", NoArg))
         caught == catchExtraction(trace, error)
     IN  IF ocr_pc = "fallbackTry"
         THEN /\ ocr_pc' = caught.pc
              /\ ocr_trace' = caught.trace
              /\ ocr_outcome' = caught.outcome
         ELSE /\ ocr_pc' = "failed"
              /\ ocr_trace' = trace
              /\ ocr_outcome' = OcrFailure(error)
  /\ UNCHANGED <<ocr_options, ocr_processed, ocr_apiKey, ocr_store, wr_vars, ocr_frame>>

\* setDeepSeekApiKey(apiKey), from the settings page.
SetDeepSeekApiKey(apiKey) ==
  /\ ocr_store # apiKey
  /\ ocr_store' = apiKey
  /\ UNCHANGED <<ocr_pc, ocr_options, ocr_processed, ocr_apiKey, ocr_trace, ocr_outcome,
                 wr_vars, ocr_frame>>

\* removeDeepSeekApiKey()
RemoveDeepSeekApiKey ==
  /\ ocr_store # null
  /\ ocr_store' = null
  /\ UNCHANGED <<ocr_pc, ocr_options, ocr_processed, ocr_apiKey, ocr_trace, ocr_outcome,
                 wr_vars, ocr_frame>>

\* The invocation has settled and its frame is dropped.
ExtractionSettled ==
  /\ ocr_pc \in {"done", "failed"}
  /\ ocr_pc' = "idle"
  /\ ocr_options' = NoOptions
  /\ ocr_processed' = Unset
  /\ ocr_apiKey' = Unset
  /\ ocr_trace' = <<>>
  /\ ocr_outcome' = OcrPending
  /\ IF wr_pc = "idle" THEN UNCHANGED wr_vars ELSE retryEnds
  /\ UNCHANGED <<ocr_store, ocr_frame>>

OcrNext ==
  \/ \E options \in OCROptions : ExtractTextFromImage(options)
  \/ PreprocessResolves
  \/ PreprocessRejects
  \/ \E response \in {"ok", "notOk", "networkError"}, elapsed \in 0..MaxOpTime :
       UploadResponds(response, elapsed)
  \/ \E response \in {"ok", "malformed", "notOk", "networkError"}, elapsed \in 0..MaxOpTime :
       ParseResponds(response, elapsed)
  \/ \E late \in 0..MaxLate : BackoffEnds(late)
  \/ FallbackResolves
  \/ FallbackRejects
  \/ \E apiKey \in StoredKeys : SetDeepSeekApiKey(apiKey)
  \/ RemoveDeepSeekApiKey
  \/ ExtractionSettled

----------------------------------------------------------------------------
(* The media strategies, lib/converters/media-converter.ts: convertAudio,  *)
(* extractAudioFromVideo, convertVideo and the shared transcoder behind    *)
(* getFFmpeg.  A message is the sequence of the fragments it is built      *)
(* from, so that a template literal is a concatenation.                    *)

\* The callers that can be inside a media call at the same time.
Procs == {1, 2}

\* The number of media calls made over one run.
MaxMediaCalls == 3

\* The file names given to the media strategies: split(".").pop() is taken
\* of them, "mp4" replacing an empty result.
MediaFileNames ==
  { <<"c", "l", "i", "p", ".">> \o mp4,
    <<"a", ".">> \o webm,
    <<"a", ".">> }

MediaFiles == { [name |-> n] : n \in MediaFileNames }

\* The targets the calls are given: one with the browser fallback, one without.
ExtractTargets == {mp3, ogg}
VideoTargets == {mp4, webm}
AudioTargets == {mp3, wav}

\* file.name.split(".").pop() || "mp4"
inputExt(file) == IF splitPop(file.name) = <<>> THEN mp4 ELSE splitPop(file.name)

\* `input.${inputExt}` and `output.${targetFormat}`
inputFileName(file) == [base |-> "input", ext |-> inputExt(file)]
outputFileName(targetFormat) == [base |-> "output", ext |-> targetFormat]

\* The names the transcoder's file system can hold in this model.
FsNames ==
  { inputFileName(f) : f \in MediaFiles }
    \cup { outputFileName(t) : t \in ExtractTargets \cup VideoTargets }

\* A file of the transcoder's file system: who wrote it and whose input its
\* bytes come from.
FsFile(writer, origin) == [writer |-> writer, origin |-> origin]

EmptyFs == [n \in FsNames |-> {}]

\* targetFormat.toUpperCase()
toUpperCaseName(targetFormat) ==
  CASE targetFormat = mp3 -> "MP3" [] targetFormat = wav -> "WAV"
    [] targetFormat = ogg -> "OGG" [] targetFormat = aac -> "AAC"
    [] targetFormat = flac -> "FLAC" [] targetFormat = m4a -> "M4A"
    [] OTHER -> "?"

\* new Error(message) with a message built from fragments.
MediaError(message) ==
  ErrorValue("Error", message, NoText, NoText, NoText, NoText, "", undefined, undefined)

SharedArrayBufferMessage ==
  << "SharedArrayBuffer is not available. FFmpeg.wasm requires cross-origin isolation. This is automatically enabled in production deployments." >>

LoadFailedMessage ==
  << "Failed to load FFmpeg.wasm. This feature requires cross-origin isolation and works automatically in production." >>

\* What the transcoder's own steps reject with.
TranscoderError(step) == MediaError(<< "ffmpeg: " , step, " failed" >>)

\* What the Web Audio path rejects with: decodeAudioData or the MediaRecorder.
BrowserRejections ==
  { MediaError(<< "Unable to decode audio data" >>),
    MediaError(<< "Failed to encode MP3 using MediaRecorder" >>) }

\* error instanceof Error ? error.message : otherwise
messageOr(error, otherwise) ==
  IF instanceofError(error) THEN error.template ELSE << otherwise >>

\* The error of extractAudioFromVideo when the browser fallback failed too.
unableToConvertError(targetFormat, fallbackError) ==
  MediaError(<< "Unable to convert video to ", toUpperCaseName(targetFormat), ". " >>
               \o messageOr(fallbackError, "Please try again."))

\* The error of extractAudioFromVideo for a target without browser fallback.
requiresFFmpegError(targetFormat) ==
  MediaError(<< toUpperCaseName(targetFormat),
                " conversion requires FFmpeg.wasm in production. ",
                "Try converting to MP3 or WAV format instead, which work in all environments." >>)

\* The error of convertVideo.
failedToConvertVideoError(error) ==
  MediaError(<< "Failed to convert video: " >> \o messageOr(error, "Unknown error"))

NoCall == [fn |-> "none", file |-> NoFile, targetFormat |-> undefined]

MediaCall(fn, file, targetFormat) == [fn |-> fn, file |-> file, targetFormat |-> targetFormat]

NoData == {}

MediaPending == [kind |-> "none", error |-> NoError, by |-> "none", origin |-> {}]
MediaResolved(by, origin) == [kind |-> "blob", error |-> NoError, by |-> by, origin |-> origin]
MediaRejected(e) == [kind |-> "error", error |-> e, by |-> "none", origin |-> {}]

\* No transcoder was constructed yet.
TranscoderUntouched ==
  /\ ffmpegInstance = {}
  /\ ffmpegLoaded = FALSE
  /\ ff_news = 0
  /\ ff_loadCalls = 0
  /\ ff_loadOks = 0
  /\ ff_fs = EmptyFs

\* The transcoder as one successful call leaves it: constructed, loaded, with
\* its temporary files deleted.
TranscoderLoaded ==
  /\ ffmpegInstance = {1}
  /\ ffmpegLoaded = TRUE
  /\ ff_news = 1
  /\ ff_loadCalls = 1
  /\ ff_loadOks = 1
  /\ ff_fs = EmptyFs

\* No caller is inside a media call.
CallersIdle ==
  /\ md_pc = [p \in Procs |-> "idle"]
  /\ md_call = [p \in Procs |-> NoCall]
  /\ md_ffmpeg = [p \in Procs |-> {}]
  /\ md_data = [p \in Procs |-> NoData]
  /\ md_foreign = [p \in Procs |-> {}]
  /\ md_trace = [p \in Procs |-> <<>>]
  /\ md_caught = [p \in Procs |-> NoError]
  /\ md_outcome = [p \in Procs |-> MediaPending]

MediaIdle == TranscoderUntouched /\ CallersIdle /\ md_started = 0

\* The catch block of the call of p is entered with error.
caught(p, pc, events, outcome, error) ==
  /\ md_pc' = [md_pc EXCEPT ![p] = pc]
  /\ md_caught' = [md_caught EXCEPT ![p] = error]
  /\ md_trace' = [md_trace EXCEPT ![p] = md_trace[p] \o events]
  /\ md_outcome' = [md_outcome EXCEPT ![p] = outcome]

\* The call of p moves on: where it is suspended next, what it has done, and
\* how it has settled.
advance(p, pc, events, outcome) ==
  /\ md_pc' = [md_pc EXCEPT ![p] = pc]
  /\ md_caught' = md_caught
  /\ md_trace' = [md_trace EXCEPT ![p] = md_trace[p] \o events]
  /\ md_outcome' = [md_outcome EXCEPT ![p] = outcome]

\* The catch block of extractAudioFromVideo: for mp3 and wav the Web Audio
\* path is tried, for every other target the call fails.
catchExtract(p, call, error, events) ==
  IF call.targetFormat \in {mp3, wav}
  THEN caught(p, "browser", events \o << "extractAudioWithBrowserAPI" >>, MediaPending, error)
  ELSE caught(p, "settled", events \o << "throw" >>,
              MediaRejected(requiresFFmpegError(call.targetFormat)), error)

\* The catch block of convertVideo.
catchVideo(p, call, error, events) ==
  caught(p, "settled", events \o << "throw" >>, MediaRejected(failedToConvertVideoError(error)),
         error)

\* The transcoder path of the call of p has raised error.
transcoderFailed(p, call, error, events) ==
  IF call.fn = "extractAudioFromVideo"
  THEN catchExtract(p, call, error, events \o << "transcoder:failed" >>)
  ELSE catchVideo(p, call, error, events \o << "transcoder:failed" >>)

\* A plausible slip: a new transcoder is constructed on every call.
needsInstanceAlways(instance) == TRUE

\* if (!ffmpegInstance)
needsInstance(instance) == instance = {}

\* A plausible slip: the isolation test is left out.
isolationMissingIgnored(sab) == FALSE

\* typeof SharedArrayBuffer === "undefined"
isolationMissing(sab) == ~sab

\* getFFmpeg has returned the instance to the call of p, which reads the
\* file and issues writeFile.
transcoderReady(p, instance, events) ==
  /\ md_ffmpeg' = [md_ffmpeg EXCEPT ![p] = instance]
  /\ advance(p, "write", events \o << "writeFile" >>, MediaPending)

\* getFFmpeg() up to its first suspension, called by the call of p.
getFFmpegBegins(p, call) ==
  IF ffmpegInstance # {} /\ ffmpegLoaded
  THEN /\ transcoderReady(p, ffmpegInstance, << "getFFmpeg", "getFFmpeg:reused" >>)
       /\ UNCHANGED <<ffmpegInstance, ff_news>>
  ELSE /\ IF needsInstance(ffmpegInstance)
          THEN /\ ffmpegInstance' = {ff_news + 1}
               /\ ff_news' = ff_news + 1
          ELSE UNCHANGED <<ffmpegInstance, ff_news>>
       /\ IF ~ffmpegLoaded
          THEN IF isolationMissing(md_sab)
               THEN /\ transcoderFailed(p, call, MediaError(SharedArrayBufferMessage),
                                        << "getFFmpeg", "getFFmpeg:threw" >>)
                    /\ UNCHANGED md_ffmpeg
               ELSE /\ advance(p, "toBlobURL", << "getFFmpeg", "toBlobURL" >>, MediaPending)
                    /\ UNCHANGED md_ffmpeg
          ELSE transcoderReady(p, ffmpegInstance', << "getFFmpeg" >>)

\* extractAudioFromVideo(file, targetFormat) or convertVideo(file,
\* targetFormat), up to the first suspension.
TranscoderCall(p, fn, file, targetFormat) ==
  /\ md_pc[p] = "idle"
  /\ md_started < MaxMediaCalls
  /\ md_started' = md_started + 1
  /\ md_call' = [md_call EXCEPT ![p] = MediaCall(fn, file, targetFormat)]
  /\ getFFmpegBegins(p, MediaCall(fn, file, targetFormat))
  /\ UNCHANGED <<ffmpegLoaded, ff_loadCalls, ff_loadOks, ff_fs, md_data, md_foreign, md_sab>>

ExtractAudioFromVideo(p, file, targetFormat) ==
  /\ TranscoderCall(p, "extractAudioFromVideo", file, targetFormat)
  /\ UNCHANGED md_frame

ConvertVideo(p, file, targetFormat) ==
  /\ TranscoderCall(p, "convertVideo", file, targetFormat)
  /\ UNCHANGED md_frame

\* The two toBlobURL downloads of getFFmpeg settle: load is invoked when both
\* succeeded, the catch block of getFFmpeg throws when one failed.
ToBlobURLResponds(p, ok) ==
  /\ md_pc[p] = "toBlobURL"
  /\ IF ok
     THEN /\ advance(p, "load", << "load" >>, MediaPending)
          /\ ff_loadCalls' = ff_loadCalls + 1
     ELSE /\ transcoderFailed(p, md_call[p], MediaError(LoadFailedMessage),
                              << "toBlobURL:rejected", "getFFmpeg:threw" >>)
          /\ UNCHANGED ff_loadCalls
  /\ UNCHANGED <<ffmpegInstance, ffmpegLoaded, ff_news, ff_loadOks, ff_fs, md_started,
                 md_call, md_ffmpeg, md_data, md_foreign, md_sab, md_frame>>

\* A plausible slip: the flag is set whether load resolved or not.
loadedAfterLoadAlways(ok) == TRUE

\* ffmpegLoaded = true is reached only when await ffmpegInstance.load(...)
\* resolved.
loadedAfterLoad(ok) == ok

\* ffmpegInstance.load settles.
LoadResponds(p, ok) ==
  /\ md_pc[p] = "load"
  /\ ffmpegLoaded' = IF loadedAfterLoad(ok) THEN TRUE ELSE ffmpegLoaded
  /\ IF ok
     THEN /\ ff_loadOks' = ff_loadOks + 1
          /\ transcoderReady(p, ffmpegInstance, << "load:resolved" >>)
     ELSE /\ transcoderFailed(p, md_call[p], MediaError(LoadFailedMessage),
                              << "load:rejected", "getFFmpeg:threw" >>)
          /\ UNCHANGED <<ff_loadOks, md_ffmpeg>>
  /\ UNCHANGED <<ffmpegInstance, ff_news, ff_loadCalls, ff_fs, md_started, md_call,
                 md_data, md_foreign, md_sab, md_frame>>

\* Whether one of the files was written by another call than p's.
foreign(p, files) == \E f \in files : f.writer # p

\* The call of p has done ops to files of another call.
touches(p, ops) == md_foreign' = [md_foreign EXCEPT ![p] = md_foreign[p] \cup ops]

\* ffmpeg.writeFile(inputFileName, await fetchFile(file)) settles: the file
\* system holds the bytes of p's file under the input name, or reading the
\* file or writing it failed.
WriteFileResponds(p, ok) ==
  /\ md_pc[p] = "write"
  /\ LET input == inputFileName(md_call[p].file)
     IN  IF ok
         THEN /\ ff_fs' = [ff_fs EXCEPT ![input] = {FsFile(p, p)}]
              /\ touches(p, IF foreign(p, ff_fs[input]) THEN {"overwrite"} ELSE {})
              /\ advance(p, "exec", << "writeFile:resolved", "exec" >>, MediaPending)
         ELSE /\ transcoderFailed(p, md_call[p], TranscoderError("writeFile"),
                                  << "writeFile:rejected" >>)
              /\ UNCHANGED <<ff_fs, md_foreign>>
  /\ UNCHANGED <<ffmpegInstance, ffmpegLoaded, ff_news, ff_loadCalls, ff_loadOks,
                 md_started, md_call, md_ffmpeg, md_data, md_sab, md_frame>>

\* ffmpeg.exec(ffmpegArgs) settles.  A run that exits with 0 has transcoded
\* the input file, whatever it holds by now, into the output file; a run
\* that exits with another code (the input file is gone, or the codec failed)
\* wrote nothing, and the code ignores the exit code; exec rejects when the
\* transcoder was terminated or aborted.
ExecResponds(p, result) ==
  /\ md_pc[p] = "exec"
  /\ LET input  == inputFileName(md_call[p].file)
         output == outputFileName(md_call[p].targetFormat)
     IN  IF result = "rejected"
         THEN /\ transcoderFailed(p, md_call[p], TranscoderError("exec"), << "exec:rejected" >>)
              /\ UNCHANGED <<ff_fs, md_foreign>>
         ELSE /\ IF result = "exit0" /\ ff_fs[input] # {}
                 THEN /\ ff_fs' = [ff_fs EXCEPT ![output] =
                                     { FsFile(p, f.origin) : f \in ff_fs[input] }]
                      /\ touches(p, (IF foreign(p, ff_fs[input]) THEN {"read"} ELSE {})
                                      \cup (IF foreign(p, ff_fs[output]) THEN {"overwrite"} ELSE {}))
                 ELSE UNCHANGED <<ff_fs, md_foreign>>
              /\ advance(p, "read", << "exec:resolved", "readFile" >>, MediaPending)
  /\ UNCHANGED <<ffmpegInstance, ffmpegLoaded, ff_news, ff_loadCalls, ff_loadOks,
                 md_started, md_call, md_ffmpeg, md_data, md_sab, md_frame>>

\* ffmpeg.readFile(outputFileName) settles: with the bytes the file system
\* holds under the output name, or with an error when there is no such file.
ReadFileResponds(p) ==
  /\ md_pc[p] = "read"
  /\ LET output == outputFileName(md_call[p].targetFormat)
     IN  IF ff_fs[output] # {}
         THEN /\ md_data' = [md_data EXCEPT ![p] = ff_fs[output]]
              /\ touches(p, IF foreign(p, ff_fs[output]) THEN {"read"} ELSE {})
              /\ advance(p, "deleteInput", << "readFile:resolved", "deleteFile" >>, MediaPending)
         ELSE /\ transcoderFailed(p, md_call[p], TranscoderError("readFile"),
                                  << "readFile:rejected" >>)
              /\ UNCHANGED <<md_data, md_foreign>>
  /\ UNCHANGED <<ffmpegInstance, ffmpegLoaded, ff_news, ff_loadCalls, ff_loadOks, ff_fs,
                 md_started, md_call, md_ffmpeg, md_sab, md_frame>>

\* The blob the transcoder path returns: new Blob([data], { type: mimeType }).
transcoderBlob(data) == MediaResolved("ffmpeg", { f.origin : f \in data })

\* A plausible slip: the output file is deleted first.
deletedFileOutputFirst(pc, call) ==
  IF pc = "deleteInput" THEN outputFileName(call.targetFormat) ELSE inputFileName(call.file)

\* await ffmpeg.deleteFile(inputFileName); await ffmpeg.deleteFile(outputFileName)
deletedFile(pc, call) ==
  IF pc = "deleteInput" THEN inputFileName(call.file) ELSE outputFileName(call.targetFormat)

\* ffmpeg.deleteFile(name) settles, for the input file and then for the
\* output file, after which the call returns the blob.
DeleteFileResponds(p) ==
  /\ md_pc[p] \in {"deleteInput", "deleteOutput"}
  /\ LET name == deletedFile(md_pc[p], md_call[p])
     IN  IF ff_fs[name] # {}
         THEN /\ ff_fs' = [ff_fs EXCEPT ![name] = {}]
              /\ touches(p, IF foreign(p, ff_fs[name]) THEN {"delete"} ELSE {})
              /\ IF md_pc[p] = "deleteInput"
                 THEN advance(p, "deleteOutput", << "deleteFile:resolved", "deleteFile" >>,
                              MediaPending)
                 ELSE advance(p, "settled", << "deleteFile:resolved", "return" >>,
                              transcoderBlob(md_data[p]))
         ELSE /\ transcoderFailed(p, md_call[p], TranscoderError("deleteFile"),
                                  << "deleteFile:rejected" >>)
              /\ UNCHANGED <<ff_fs, md_foreign>>
  /\ UNCHANGED <<ffmpegInstance, ffmpegLoaded, ff_news, ff_loadCalls, ff_loadOks,
                 md_started, md_call, md_ffmpeg, md_data, md_sab, md_frame>>

\* extractAudioWithBrowserAPI settles: its blob is returned, or the call
\* fails with an error that quotes the fallback's message.
BrowserResponds(p, ok, fallbackError) ==
  /\ md_pc[p] = "browser"
  /\ IF ok
     THEN advance(p, "settled", << "extractAudioWithBrowserAPI:resolved", "return" >>,
                  MediaResolved("browser", {p}))
     ELSE advance(p, "settled", << "extractAudioWithBrowserAPI:rejected", "throw" >>,
                  MediaRejected(unableToConvertError(md_call[p].targetFormat, fallbackError)))
  /\ UNCHANGED <<ffmpegInstance, ffmpegLoaded, ff_news, ff_loadCalls, ff_loadOks, ff_fs,
                 md_started, md_call, md_ffmpeg, md_data, md_foreign, md_sab, md_frame>>

\* convertAudio(file, targetFormat) up to its first suspension: the Web
\* Audio path (decodeAudioData, startRendering, the encoder) is started.
ConvertAudio(p, file, targetFormat) ==
  /\ md_pc[p] = "idle"
  /\ md_started < MaxMediaCalls
  /\ md_started' = md_started + 1
  /\ md_call' = [md_call EXCEPT ![p] = MediaCall("convertAudio", file, targetFormat)]
  /\ advance(p, "native", << "native" >>, MediaPending)
  /\ UNCHANGED <<ffmpegInstance, ffmpegLoaded, ff_news, ff_loadCalls, ff_loadOks, ff_fs,
                 md_ffmpeg, md_data, md_foreign, md_sab, md_frame>>

\* The Web Audio path of convertAudio settles: resolve(blob) or reject(error).
NativeResponds(p, ok, error) ==
  /\ md_pc[p] = "native"
  /\ IF ok
     THEN advance(p, "settled", << "native:resolved", "return" >>, MediaResolved("browser", {p}))
     ELSE advance(p, "settled", << "native:rejected", "throw" >>, MediaRejected(error))
  /\ UNCHANGED <<ffmpegInstance, ffmpegLoaded, ff_news, ff_loadCalls, ff_loadOks, ff_fs,
                 md_started, md_call, md_ffmpeg, md_data, md_foreign, md_sab, md_frame>>

\* The call of p has settled and its frame is dropped.
MediaSettled(p) ==
  /\ md_pc[p] = "settled"
  /\ md_pc' = [md_pc EXCEPT ![p] = "idle"]
  /\ md_call' = [md_call EXCEPT ![p] = NoCall]
  /\ md_ffmpeg' = [md_ffmpeg EXCEPT ![p] = {}]
  /\ md_data' = [md_data EXCEPT ![p] = NoData]
  /\ md_foreign' = [md_foreign EXCEPT ![p] = {}]
  /\ md_trace' = [md_trace EXCEPT ![p] = <<>>]
  /\ md_caught' = [md_caught EXCEPT ![p] = NoError]
  /\ md_outcome' = [md_outcome EXCEPT ![p] = MediaPending]
  /\ UNCHANGED <<ffmpegInstance, ffmpegLoaded, ff_news, ff_loadCalls, ff_loadOks, ff_fs,
                 md_started, md_sab, md_frame>>

\* One step of the media call of p.
MediaStep(p) ==
  \/ \E file \in MediaFiles, targetFormat \in ExtractTargets :
       ExtractAudioFromVideo(p, file, targetFormat)
  \/ \E file \in MediaFiles, targetFormat \in VideoTargets :
       ConvertVideo(p, file, targetFormat)
  \/ \E file \in MediaFiles, targetFormat \in AudioTargets :
       ConvertAudio(p, file, targetFormat)
  \/ \E ok \in BOOLEAN : ToBlobURLResponds(p, ok)
  \/ \E ok \in BOOLEAN : LoadResponds(p, ok)
  \/ \E ok \in BOOLEAN : WriteFileResponds(p, ok)
  \/ \E result \in {"exit0", "exit1", "rejected"} : ExecResponds(p, result)
  \/ ReadFileResponds(p)
  \/ DeleteFileResponds(p)
  \/ \E ok \in BOOLEAN, fallbackError \in BrowserRejections : BrowserResponds(p, ok, fallbackError)
  \/ \E ok \in BOOLEAN, error \in BrowserRejections : NativeResponds(p, ok, error)
  \/ MediaSettled(p)

\* Media calls made one after the other, as the convert page makes them.
MediaNext == MediaStep(1)

\* Media calls made by two callers at once.
MediaConcurrentNext == \E p \in Procs : MediaStep(p)

\* convertFile(file, sourceFormat, targetFormat) around a settled media
\* call: return await strategy(...) inside the try block, whose catch block
\* wraps what the strategy threw.
viaConvertFile(outcome, file, sourceFormat, targetFormat) ==
  IF outcome.kind = "error"
  THEN MediaRejected(catchBlock(outcome.error, file, sourceFormat, targetFormat))
  ELSE outcome

\* error?.includes("SharedArrayBuffer"), the test of the convert page, on a
\* message built from fragments.
includesSharedArrayBuffer(message) ==
  \E i \in 1..Len(message) : message[i] = SharedArrayBufferMessage[1]
----------------------------------------------------------------------------
(* DeepSeekOCRService.postprocessText, lib/services/ocr-service.ts 152-194.*)
(* A text is the sequence of its characters; "\n" is the line break and    *)
(* "\t" the tab.                                                           *)

\* The characters of s at the positions in K, in order.
charsAt(s, K) ==
  [n \in 1..Cardinality(K) |-> s[CHOOSE i \in K : Cardinality({ j \in K : j <= i }) = n]]

\* [ \t]
isBlank(c) == c \in {" ", "\t"}

\* What String.prototype.trim removes.
isWhitespace(c) == c \in {" ", "\t", "\n"}

\* processed.replace(/[ \t]+/g, " "): each run of spaces and tabs becomes
\* one space.
collapseBlanks(s) ==
  LET first(i) == ~isBlank(s[i]) \/ i = 1 \/ ~isBlank(s[i - 1])
      spaced   == [i \in 1..Len(s) |-> IF isBlank(s[i]) THEN " " ELSE s[i]]
  IN  charsAt(spaced, { i \in 1..Len(s) : first(i) })

\* \w
isWordChar(c) == c \in {"a", "O", "l", "S", "B", "0", "1", "5", "8", "_"}

\* [a-zA-Z]
isLetter(c) == c \in {"a", "O", "l", "S", "B"}

\* commonErrors
correction(c) ==
  CASE c = "0" -> "O" [] c = "1" -> "l" [] c = "5" -> "S" [] c = "8" -> "B" [] OTHER -> c

\* processed.replace(/\b\w+\b/g, ...): in every word (a longest run
\* of \w characters) that holds a letter the digits 0, 1, 5 and 8 become O,
\* l, S and B; a word without a letter is left as it is.
fixCommonErrors(s) ==
  LET inWord(i, j) == \A k \in i..j : isWordChar(s[k])
      hasLetter(i) ==
        \E j \in 1..Len(s) :
          /\ isLetter(s[j])
          /\ IF j <= i THEN inWord(j, i) ELSE inWord(i, j)
  IN  [i \in 1..Len(s) |-> IF isWordChar(s[i]) /\ hasLetter(i) THEN correction(s[i]) ELSE s[i]]

\* processed.replace(/\n{3,}/g, "\n\n"): of a run of three or more line
\* breaks the first two are kept.
collapseLineBreaks(s) ==
  LET kept(i) == ~(s[i] = "\n" /\ i > 2 /\ s[i - 1] = "\n" /\ s[i - 2] = "\n")
  IN  charsAt(s, { i \in 1..Len(s) : kept(i) })

\* processed.split("\n").map((line) => line.trim()).join("\n"): a character
\* of a line stays when it is no white space or has a character that is no
\* white space before it and after it on its line.
trimLines(s) ==
  LET sameLine(i, j) == \A k \in i..j : s[k] # "\n"
      inkBefore(i) == \E j \in 1..i : ~isWhitespace(s[j]) /\ sameLine(j, i)
      inkAfter(i)  == \E j \in i..Len(s) : ~isWhitespace(s[j]) /\ sameLine(i, j)
      kept(i) == s[i] = "\n" \/ (inkBefore(i) /\ inkAfter(i))
  IN  charsAt(s, { i \in 1..Len(s) : kept(i) })

\* String.prototype.trim
trim(s) ==
  LET ink == { i \in 1..Len(s) : ~isWhitespace(s[i]) }
  IN  IF ink = {} THEN <<>>
      ELSE SubSeq(s, CHOOSE i \in ink : \A j \in ink : i <= j,
                     CHOOSE i \in ink : \A j \in ink : j <= i)

\* postprocessText(text)
postprocessText(text) ==
  trim(trimLines(collapseLineBreaks(fixCommonErrors(collapseBlanks(text)))))

\* The characters the texts are made of, and their greatest length.
TextChars == {"a", "0", " ", "\t", "\n"}
MaxTextLen == 6

Texts == UNION { [1..n -> TextChars] : n \in 0..MaxTextLen }

PostprocessIdle ==
  /\ pp_pc = "idle"
  /\ pp_text = <<>>
  /\ pp_result = <<>>

\* postprocessText(text) is called and returns.
PostprocessText(text) ==
  /\ pp_pc = "idle"
  /\ pp_pc' = "returned"
  /\ pp_text' = text
  /\ pp_result' = postprocessText(text)
  /\ UNCHANGED pp_frame

\* The caller has taken the result.
PostprocessReturns ==
  /\ pp_pc = "returned"
  /\ pp_pc' = "idle"
  /\ pp_text' = <<>>
  /\ pp_result' = <<>>
  /\ UNCHANGED pp_frame

PostprocessNext ==
  \/ pp_pc = "idle" /\ \E text \in Texts : PostprocessText(text)
  \/ PostprocessReturns
----------------------------------------------------------------------------
(* pdfToText, lib/converters/pdf-converter.ts 37-50, and                   *)
(* DeepSeekOCRService.extractTextFromPDF, lib/services/ocr-service.ts      *)
(* 328-400.  A PDF is the sequence of its pages, a page the sequence of    *)
(* the strings of its text items.                                          *)

\* The most pages a PDF of the model has.
MaxPdfPages == 11

\* for (let i = 1; i <= Math.min(pdf.numPages, 10); i++)
OcrPageLimit == 10

\* A page without text items, as a scanned page is.
NoItems == <<>>

\* The pages without text: no item at all, or one item that is a space.
TextlessPages == { NoItems, << << " " >> >> }

\* The PDF of n pages whose pages t1 and t2 have text and whose other pages
\* are the textless page given.
Pdf(n, textless, t1, t2) ==
  [i \in 1..n |-> IF i = t1 THEN << << "a" >> >>
                  ELSE IF i = t2 THEN << << "a" >>, << "0", "a" >> >>
                  ELSE textless]

Pdfs ==
  UNION { { Pdf(n, textless, t1, t2) : textless \in TextlessPages, t1 \in 0..n, t2 \in {0, n} } :
            n \in 1..MaxPdfPages }

\* What the image OCR pipeline returns as result.text for a rendered page.
OcrTexts == { <<>>, << "x" >> }

LineBreaks == << "\n", "\n" >>

\* items.map((item) => item.str).join(" ")
RECURSIVE joinItems(_)
joinItems(items) ==
  IF items = <<>> THEN <<>>
  ELSE IF Len(items) = 1 THEN items[1]
  ELSE items[1] \o << " " >> \o joinItems(Tail(items))

\* Math.min(a, b)
min(a, b) == IF a <= b THEN a ELSE b

PdfPending == [kind |-> "none", text |-> <<>>, confidence |-> {}]

\* What pdfToText resolves with: a string.
TextResult(text) == [kind |-> "text", text |-> text, confidence |-> {}]

\* What extractTextFromPDF resolves with; the confidence is in hundredths.
OcrPdfResult(text, confidence) == [kind |-> "result", text |-> text, confidence |-> {confidence}]

\* throw new Error("Failed to extract text from PDF")
PdfFailure == [kind |-> "error", text |-> <<>>, confidence |-> {}]

PdfIdle ==
  /\ px_pc = "idle"
  /\ px_fn = "none"
  /\ px_pdf = <<>>
  /\ px_i = 0
  /\ px_text = <<>>
  /\ px_hasText = FALSE
  /\ px_ocrPages = <<>>
  /\ px_result = PdfPending

\* pdfToText(file) up to the first page: the document is loaded and page 1
\* is requested.
PdfToText(document) ==
  /\ px_pc = "idle"
  /\ px_pc' = "page"
  /\ px_fn' = "pdfToText"
  /\ px_pdf' = document
  /\ px_i' = 1
  /\ UNCHANGED <<px_text, px_hasText, px_ocrPages, px_result, px_frame>>

\* One turn of the loop of pdfToText: the text content of page i has come.
PdfToTextPage ==
  /\ px_pc = "page" /\ px_fn = "pdfToText"
  /\ LET pageText == joinItems(px_pdf[px_i])
         fullText == px_text \o pageText \o LineBreaks
     IN  /\ px_text' = fullText
         /\ IF px_i = Len(px_pdf)
            THEN /\ px_pc' = "done"
                 /\ px_result' = TextResult(fullText)
                 /\ UNCHANGED px_i
            ELSE /\ px_i' = px_i + 1
                 /\ UNCHANGED <<px_pc, px_result>>
  /\ UNCHANGED <<px_fn, px_pdf, px_hasText, px_ocrPages, px_frame>>

\* extractTextFromPDF(pdfBlob, options) up to the first page.
ExtractTextFromPDF(document) ==
  /\ px_pc = "idle"
  /\ px_pc' = "page"
  /\ px_fn' = "extractTextFromPDF"
  /\ px_pdf' = document
  /\ px_i' = 1
  /\ UNCHANGED <<px_text, px_hasText, px_ocrPages, px_result, px_frame>>

\* pageText.trim().length > 0
pageHasText(pageText) == Len(trim(pageText)) > 0

\* A plausible slip: the page limit is not applied.
ocrPageCountUnlimited(numPages) == numPages

\* Math.min(pdf.numPages, 10)
ocrPageCount(numPages) == min(numPages, OcrPageLimit)

\* One turn of the first loop of extractTextFromPDF: the text content of
\* page i has come.  After the last page the extracted text is returned
\* when a page had text; when none had, the second loop starts: page 1 is
\* rendered and handed to extractTextFromImage.
ExtractPage ==
  /\ px_pc = "page" /\ px_fn = "extractTextFromPDF"
  /\ LET pageText == joinItems(px_pdf[px_i])
         hasText == px_hasText \/ pageHasText(pageText)
         extractedText == IF pageHasText(pageText)
                          THEN px_text \o pageText \o LineBreaks
                          ELSE px_text
     IN  /\ px_hasText' = hasText
         /\ IF px_i < Len(px_pdf)
            THEN /\ px_i' = px_i + 1
                 /\ px_text' = extractedText
                 /\ UNCHANGED <<px_pc, px_ocrPages, px_result>>
            ELSE IF hasText
            THEN /\ px_pc' = "done"
                 /\ px_text' = extractedText
                 /\ px_result' = OcrPdfResult(postprocessText(extractedText), 100)
                 /\ UNCHANGED <<px_i, px_ocrPages>>
            ELSE /\ px_pc' = "ocr"
                 /\ px_i' = 1
                 /\ px_text' = <<>>
                 /\ px_ocrPages' = << 1 >>
                 /\ UNCHANGED px_result
  /\ UNCHANGED <<px_fn, px_pdf, px_frame>>

\* One turn of the second loop: extractTextFromImage has resolved for the
\* image of page i.  After the last page the trimmed text is returned.
PageOcrResolves(text) ==
  /\ px_pc = "ocr"
  /\ LET ocrText == px_text \o text \o LineBreaks
     IN  /\ px_text' = ocrText
         /\ IF px_i < ocrPageCount(Len(px_pdf))
            THEN /\ px_i' = px_i + 1
                 /\ px_ocrPages' = Append(px_ocrPages, px_i + 1)
                 /\ UNCHANGED <<px_pc, px_result>>
            ELSE /\ px_pc' = "done"
                 /\ px_result' = OcrPdfResult(trim(ocrText), 85)
                 /\ UNCHANGED <<px_i, px_ocrPages>>
  /\ UNCHANGED <<px_fn, px_pdf, px_hasText, px_frame>>

\* extractTextFromImage has rejected for the image of page i: the catch
\* block throws.
PageOcrRejects ==
  /\ px_pc = "ocr"
  /\ px_pc' = "failed"
  /\ px_result' = PdfFailure
  /\ UNCHANGED <<px_fn, px_pdf, px_i, px_text, px_hasText, px_ocrPages, px_frame>>

\* The call has settled and its frame is dropped.
PdfSettled ==
  /\ px_pc \in {"done", "failed"}
  /\ px_pc' = "idle"
  /\ px_fn' = "none"
  /\ px_pdf' = <<>>
  /\ px_i' = 0
  /\ px_text' = <<>>
  /\ px_hasText' = FALSE
  /\ px_ocrPages' = <<>>
  /\ px_result' = PdfPending
  /\ UNCHANGED px_frame

PdfNext ==
  \/ px_pc = "idle" /\ \E document \in Pdfs : PdfToText(document)
  \/ px_pc = "idle" /\ \E document \in Pdfs : ExtractTextFromPDF(document)
  \/ PdfToTextPage
  \/ ExtractPage
  \/ \E text \in OcrTexts : PageOcrResolves(text)
  \/ PageOcrRejects
  \/ PdfSettled
----------------------------------------------------------------------------
(* estimateThreshold and applyContrastAndThreshold,                        *)
(* lib/services/ocr-utils.ts 1-51.  The code computes in doubles; the      *)
(* model computes the same expressions in exact fractions.  A luminance is *)
(* kept in thousandths, as [num, den] for num / den.                       *)

CONTRAST_SCALE_BASE == 259
MAX_CHANNEL_VALUE == 255

\* GRAYSCALE_WEIGHTS, in thousandths.
GRAYSCALE_WEIGHTS == [r |-> 299, g |-> 587, b |-> 114]

\* The most pixels a buffer of the model holds.
MaxPixels == 2

\* The colours and alpha values the pixels are made of.
PixelColours ==
  { << v, v, v >> : v \in {0, 10, 127, 128, 240, 255} }
    \cup { << 255, 0, 0 >>, << 0, 255, 0 >>, << 0, 0, 255 >>, << 200, 100, 0 >> }

PixelAlphas == {0, 255}

Pixels == { c \o << a >> : c \in PixelColours, a \in PixelAlphas }

\* A pixel buffer: the flat array of the channels of its pixels.
RECURSIVE flat(_)
flat(pixels) == IF pixels = <<>> THEN <<>> ELSE Head(pixels) \o flat(Tail(pixels))

PixelBuffers == UNION { { flat(ps) : ps \in [1..n -> Pixels] } : n \in 0..MaxPixels }

\* The contrast arguments, in tenths: 1 (the test) and 1.2 (the default and
\* preprocessImage).
Contrasts == {10, 12}

Fraction(num, den) == [num |-> num, den |-> den]

\* A plausible slip: the default for an empty buffer is 0.
emptyThresholdZero == Fraction(0, 1)

\* return 128
emptyThreshold == Fraction(128000, 1)

\* The loop of estimateThreshold from index i on: sum and count.
RECURSIVE graySum(_, _)
graySum(data, i) ==
  IF i > Len(data) THEN [sum |-> 0, count |-> 0]
  ELSE LET rest == graySum(data, i + 4)
           gray == GRAYSCALE_WEIGHTS.r * data[i] + GRAYSCALE_WEIGHTS.g * data[i + 1]
                     + GRAYSCALE_WEIGHTS.b * data[i + 2]
       IN  [sum |-> gray + rest.sum, count |-> rest.count + 1]

\* estimateThreshold(data)
estimateThreshold(data) ==
  IF Len(data) = 0 THEN emptyThreshold
  ELSE IF graySum(data, 1).count = 0 THEN emptyThreshold
  ELSE Fraction(graySum(data, 1).sum, graySum(data, 1).count)

\* factor, for a contrast in tenths, as a fraction in lowest terms.
RECURSIVE gcd(_, _)
gcd(a, b) == IF b = 0 THEN a ELSE gcd(b, a % b)

factor(contrast) ==
  LET num == CONTRAST_SCALE_BASE * (contrast + 10 * MAX_CHANNEL_VALUE)
      den == MAX_CHANNEL_VALUE * (10 * CONTRAST_SCALE_BASE - contrast)
  IN  Fraction(num \div gcd(num, den), den \div gcd(num, den))

\* clampChannel(factor * (value - 128) + 128), as a multiple of 1 / f.den.
contrasted(f, value) ==
  LET raw == f.num * (value - 128) + 128 * f.den
  IN  IF raw < 0 THEN 0
      ELSE IF raw > 255 * f.den THEN 255 * f.den
      ELSE raw

\* The gray of the pixel at i after the contrast stretch, in thousandths, as
\* whole part and fraction part / f.den.
contrastedGray(data, i, f) ==
  LET weigh(part(_)) ==
        GRAYSCALE_WEIGHTS.r * part(contrasted(f, data[i]))
          + GRAYSCALE_WEIGHTS.g * part(contrasted(f, data[i + 1]))
          + GRAYSCALE_WEIGHTS.b * part(contrasted(f, data[i + 2]))
      whole(c) == c \div f.den
      rest(c)  == c % f.den
  IN  [ whole |-> weigh(whole) + (weigh(rest) \div f.den),
        rest  |-> weigh(rest) % f.den ]

\* gray >= threshold
atLeast(gray, den, threshold) ==
  LET whole == threshold.num \div threshold.den
      rest  == threshold.num % threshold.den
  IN  \/ gray.whole > whole
      \/ gray.whole = whole /\ gray.rest * threshold.den >= rest * den

\* applyContrastAndThreshold(data, contrast, threshold)
applyContrastAndThreshold(data, contrast, threshold) ==
  LET f == factor(contrast)
      pixelOf(k) == 4 * ((k - 1) \div 4) + 1
      value(i) == IF atLeast(contrastedGray(data, i, f), f.den, threshold) THEN 255 ELSE 0
  IN  [k \in 1..Len(data) |->
         IF k % 4 = 0 THEN data[k] ELSE value(pixelOf(k))]

\* The threshold arguments a caller passes besides the estimate.
Thresholds == { Fraction(0, 1), Fraction(128000, 1), Fraction(255000, 1) }

NoBuffer == << "none" >>
NoThreshold == Fraction(0, 0)

ThresholdIdle ==
  /\ th_pc = "idle"
  /\ th_data = NoBuffer
  /\ th_contrast = 0
  /\ th_threshold = NoThreshold
  /\ th_output = NoBuffer

\* const threshold = estimateThreshold(data)
EstimateThreshold(data) ==
  /\ th_pc = "idle"
  /\ th_pc' = "estimated"
  /\ th_data' = data
  /\ th_threshold' = estimateThreshold(data)
  /\ UNCHANGED << th_contrast, th_output >>
  /\ UNCHANGED th_frame

\* applyContrastAndThreshold(data, contrast, threshold) with the threshold
\* just estimated from the same data (preprocessImage and the test).
ApplyWithEstimate(contrast) ==
  /\ th_pc = "estimated"
  /\ th_pc' = "applied"
  /\ th_contrast' = contrast
  /\ th_output' = applyContrastAndThreshold(th_data, contrast, th_threshold)
  /\ UNCHANGED << th_data, th_threshold >>
  /\ UNCHANGED th_frame

\* applyContrastAndThreshold(data, contrast, threshold) with a threshold of
\* the caller's.
ApplyContrastAndThreshold(data, contrast, threshold) ==
  /\ th_pc = "idle"
  /\ th_pc' = "applied"
  /\ th_data' = data
  /\ th_contrast' = contrast
  /\ th_threshold' = threshold
  /\ th_output' = applyContrastAndThreshold(data, contrast, threshold)
  /\ UNCHANGED th_frame

\* The caller has read the buffer; the next call can be made.
ThresholdReturns ==
  /\ th_pc = "applied"
  /\ th_pc' = "idle"
  /\ th_data' = NoBuffer
  /\ th_contrast' = 0
  /\ th_threshold' = NoThreshold
  /\ th_output' = NoBuffer
  /\ UNCHANGED th_frame

ThresholdNext ==
  \/ \E data \in PixelBuffers : EstimateThreshold(data)
  \/ \E contrast \in Contrasts : ApplyWithEstimate(contrast)
  \/ \E data \in PixelBuffers, contrast \in Contrasts, threshold \in Thresholds :
       ApplyContrastAndThreshold(data, contrast, threshold)
  \/ ThresholdReturns
----------------------------------------------------------------------------
(* The convert page, app/convert/page.tsx: the state of the component, its *)
(* handlers handleConversion, handleDownload and handleBackHome, and the   *)
(* progress timer set by handleConversion.  The state updates a handler    *)
(* makes between two awaits are applied together.                          *)

PageFileNames ==
  { << "a", ".", "p", "n", "g" >>,
    << "a", ".", "b", ".", "p", "n", "g" >>,
    << "a", "." >>,
    << ".", "p", "n", "g" >>,
    << "a" >> }

PageFiles == { [name |-> n] : n \in PageFileNames }

PageTargets == { pdf, jpg }

\* err.message of what convertFile rejected with.
PageErrorMessages == { "", "Conversion from png to pdf is not yet implemented" }

NoPageFile == [name |-> undefined]

\* What the progress timer adds on each tick, and where it stops.
ProgressStep == 10
ProgressCap == 90

\* useState("idle"), useState(0), useState(null), useState(null): the page is
\* not shown.
PageIdle ==
  /\ pg_pc = "unmounted"
  /\ pg_file = NoPageFile
  /\ pg_target = undefined
  /\ pg_status = "idle"
  /\ pg_progress = 0
  /\ pg_error = {}
  /\ pg_resultBlob = {}
  /\ pg_interval = FALSE
  /\ pg_download = undefined

\* file.name.split(".")[0]
firstPart(name) ==
  IF \E i \in 1..Len(name) : name[i] = "."
  THEN SubSeq(name, 1, (CHOOSE i \in 1..Len(name) :
                          name[i] = "." /\ \A j \in 1..(i - 1) : name[j] # ".") - 1)
  ELSE name

\* `${file.name.split(".")[0]}.${targetFormat}`
downloadName(name, targetFormat) == firstPart(name) \o << "." >> \o targetFormat

\* The effect on mount with a file in the context: handleConversion(file) up
\* to its first await.
HandleConversion(file, targetFormat) ==
  /\ pg_pc = "unmounted"
  /\ pg_pc' = "awaiting"
  /\ pg_file' = file
  /\ pg_target' = targetFormat
  /\ pg_status' = "converting"
  /\ pg_progress' = 0
  /\ pg_error' = {}
  /\ pg_interval' = TRUE
  /\ UNCHANGED << pg_resultBlob, pg_download >>
  /\ UNCHANGED pg_frame

\* The callback of setInterval(..., 200).
ProgressTick ==
  /\ pg_pc # "unmounted"
  /\ pg_interval
  /\ IF pg_progress >= ProgressCap
     THEN pg_interval' = FALSE /\ pg_progress' = ProgressCap
     ELSE pg_interval' = pg_interval /\ pg_progress' = pg_progress + ProgressStep
  /\ UNCHANGED << pg_pc, pg_file, pg_target, pg_status, pg_error, pg_resultBlob, pg_download >>
  /\ UNCHANGED pg_frame

\* await convertFile(...) resolves: the rest of the try block.
PageConvertResolves ==
  /\ pg_pc = "awaiting"
  /\ pg_pc' = "settled"
  /\ pg_interval' = FALSE
  /\ pg_progress' = 100
  /\ pg_resultBlob' = { [type |-> pg_target] }
  /\ pg_status' = "completed"
  /\ UNCHANGED << pg_file, pg_target, pg_error, pg_download >>
  /\ UNCHANGED pg_frame

\* await import(...) or await convertFile(...) rejects: the catch block.
PageConvertRejects(message) ==
  /\ pg_pc = "awaiting"
  /\ pg_pc' = "settled"
  /\ pg_status' = "error"
  /\ pg_error' = { IF message = "" THEN "Conversion failed" ELSE message }
  /\ UNCHANGED << pg_file, pg_target, pg_progress, pg_resultBlob, pg_interval, pg_download >>
  /\ UNCHANGED pg_frame

\* handleDownload
HandleDownload ==
  /\ pg_pc # "unmounted"
  /\ pg_resultBlob # {}
  /\ pg_download' = downloadName(pg_file.name, pg_target)
  /\ UNCHANGED << pg_pc, pg_file, pg_target, pg_status, pg_progress, pg_error, pg_resultBlob,
                  pg_interval >>
  /\ UNCHANGED pg_frame

\* handleBackHome: the file context is cleared and the page left; the state
\* of the component is discarded.
HandleBackHome ==
  /\ pg_pc # "unmounted"
  /\ pg_pc' = "unmounted"
  /\ pg_file' = NoPageFile
  /\ pg_target' = undefined
  /\ pg_status' = "idle"
  /\ pg_progress' = 0
  /\ pg_error' = {}
  /\ pg_resultBlob' = {}
  /\ pg_interval' = FALSE
  /\ pg_download' = undefined
  /\ UNCHANGED pg_frame

PageNext ==
  \/ \E file \in PageFiles, targetFormat \in PageTargets : HandleConversion(file, targetFormat)
  \/ ProgressTick
  \/ PageConvertResolves
  \/ \E message \in PageErrorMessages : PageConvertRejects(message)
  \/ HandleDownload
  \/ HandleBackHome
----------------------------------------------------------------------------
(* The wrap and paginate loops of textToPdf and docxToPdf,                 *)
(* lib/converters/index.ts 77-143 and 156-250.  A text is a sequence of    *)
(* lines (split("\n")), a line a sequence of words (split(" ")), the empty *)
(* word included.  Lengths are in hundredths of a point, widths of text in *)
(* thousandths of a point.                                                 *)

\* The words of the model: the empty word (between two spaces), a word a
\* third of a line wide and a word wider than a line; their widths and the
\* width of a space, in thousandths of the font size.
WordKinds == { "", "m", "w" }

emWidth(text) == CASE text = ""  -> 0
                   [] text = "m" -> 17000
                   [] text = "w" -> 48000
                   [] text = " " -> 278

\* The most lines before the last line of a text, and the most words of the
\* last line.
MaxLines == 53
MaxWords == 3

\* A word of the text: where it stands and what it is.
Word(line, index, text) == [line |-> line, index |-> index, text |-> text]

TextLines == UNION { [1..n -> WordKinds] : n \in 1..MaxWords }

\* The texts laid out: up to MaxLines one-word lines and a last line.  The
\* loop takes the lines one by one; lines is what it has taken so far.
isPdfText(lines) ==
  /\ Len(lines) <= MaxLines + 1
  /\ \A i \in 1..(Len(lines) - 1) : lines[i] = << "m" >>

\* fontSize, lineHeight, margin, pageWidth, pageHeight of textToPdf (82-86).
textToPdfPage ==
  [fontSize |-> 12, lineHeight |-> 1440, margin |-> 5000, pageWidth |-> 59528,
   pageHeight |-> 84189]

\* The same of docxToPdf (183-188), on jsPDF's a4 page in points.
docxToPdfPage ==
  [fontSize |-> 11, lineHeight |-> 1650, margin |-> 4000, pageWidth |-> 59528,
   pageHeight |-> 84189]

\* maxWidth = pageWidth - 2 * margin
maxWidth(g) == g.pageWidth - 2 * g.margin

\* font.widthOfTextAtSize(line, fontSize) / pdf.getTextWidth(line): the
\* advance widths of the words and of the spaces between them.
RECURSIVE wordsWidth(_)
wordsWidth(ws) ==
  IF ws = << >> THEN 0
  ELSE emWidth(Head(ws).text) + (IF Len(ws) > 1 THEN emWidth(" ") ELSE 0) + wordsWidth(Tail(ws))

textWidth(ws, g) == wordsWidth(ws) * g.fontSize

\* A line the loop holds or draws is the sequence of its words; the empty
\* string is the empty sequence.
asLine(word) == IF word.text = "" THEN << >> ELSE << word >>

\* currentLine + (currentLine ? " " : "") + word
testLine(currentLine, word) ==
  IF currentLine = << >> THEN asLine(word) ELSE Append(currentLine, word)

\* A plausible slip: the line is never flushed before its end.
overflowsNever(currentLine, word, g) == FALSE

\* textWidth > maxWidth && currentLine
overflows(currentLine, word, g) ==
  /\ textWidth(testLine(currentLine, word), g) > 10 * maxWidth(g)
  /\ currentLine # << >>

Drawn(page, y, words) == [page |-> page, y |-> y, words |-> words]

\* The cursor of a loop: the page, yPosition and the calls made so far.
Cursor(page, y, drawn) == [page |-> page, y |-> y, drawn |-> drawn]

\* textToPdf: page.drawText(currentLine, ...); yPosition -= lineHeight; and a
\* new page if (yPosition < margin).
drawTextLine(c, currentLine, g) ==
  LET drawn == Append(c.drawn, Drawn(c.page, c.y, currentLine))
  IN  IF c.y - g.lineHeight < g.margin
      THEN Cursor(c.page + 1, g.pageHeight - g.margin, drawn)
      ELSE Cursor(c.page, c.y - g.lineHeight, drawn)

\* docxToPdf: a new page if (yPosition + lineHeight > pageHeight - margin);
\* pdf.text(currentLine, margin, yPosition); yPosition += lineHeight.
drawDocxLine(c, currentLine, g) ==
  LET at == IF c.y + g.lineHeight > g.pageHeight - g.margin
            THEN [page |-> c.page + 1, y |-> g.margin]
            ELSE [page |-> c.page, y |-> c.y]
  IN  Cursor(at.page, at.y + g.lineHeight, Append(c.drawn, Drawn(at.page, at.y, currentLine)))

drawLine(fn, c, currentLine, g) ==
  IF fn = "textToPdf" THEN drawTextLine(c, currentLine, g) ELSE drawDocxLine(c, currentLine, g)

\* for (const word of words) { ... } and the if (currentLine) after it, from
\* the word at index on.
RECURSIVE wrapLine(_, _, _, _, _, _, _)
wrapLine(fn, g, c, words, lineNo, index, currentLine) ==
  IF index > Len(words)
  THEN IF currentLine # << >> THEN drawLine(fn, c, currentLine, g) ELSE c
  ELSE LET word == Word(lineNo, index, words[index])
       IN  IF overflows(currentLine, word, g)
           THEN wrapLine(fn, g, drawLine(fn, c, currentLine, g), words, lineNo, index + 1,
                         asLine(word))
           ELSE wrapLine(fn, g, c, words, lineNo, index + 1, testLine(currentLine, word))

\* !line.trim()
isBlankLine(words) == \A i \in 1..Len(words) : words[i] = ""

\* One iteration of for (const line of lines) { ... }.
layoutLine(fn, g, c, words, lineNo) ==
  IF fn = "docxToPdf" /\ isBlankLine(words)
  THEN Cursor(c.page, c.y + g.lineHeight \div 2, c.drawn)
  ELSE wrapLine(fn, g, c, words, lineNo, 1, << >>)

pageOf(fn) == IF fn = "textToPdf" THEN textToPdfPage ELSE docxToPdfPage

LayoutIdle ==
  /\ tp_pc = "idle"
  /\ tp_fn = "none"
  /\ tp_text = << >>
  /\ tp_page = 0
  /\ tp_yPosition = 0
  /\ tp_drawn = << >>

\* textToPdf(file), up to the loop: the first page is added and yPosition is
\* pageHeight - margin.
TextToPdf ==
  /\ tp_pc = "idle"
  /\ tp_pc' = "lines"
  /\ tp_fn' = "textToPdf"
  /\ tp_page' = 1
  /\ tp_yPosition' = textToPdfPage.pageHeight - textToPdfPage.margin
  /\ UNCHANGED << tp_text, tp_drawn >>
  /\ UNCHANGED tp_frame

\* docxToPdf(file), up to the loop: yPosition is margin on the first page.
DocxToPdf ==
  /\ tp_pc = "idle"
  /\ tp_pc' = "lines"
  /\ tp_fn' = "docxToPdf"
  /\ tp_page' = 1
  /\ tp_yPosition' = docxToPdfPage.margin
  /\ UNCHANGED << tp_text, tp_drawn >>
  /\ UNCHANGED tp_frame

\* The loop takes the next line of the text.
LayoutLine(words) ==
  /\ tp_pc = "lines"
  /\ isPdfText(Append(tp_text, words))
  /\ LET c == layoutLine(tp_fn, pageOf(tp_fn), Cursor(tp_page, tp_yPosition, tp_drawn), words,
                         Len(tp_text) + 1)
     IN  /\ tp_page' = c.page
         /\ tp_yPosition' = c.y
         /\ tp_drawn' = c.drawn
  /\ tp_text' = Append(tp_text, words)
  /\ UNCHANGED << tp_pc, tp_fn >>
  /\ UNCHANGED tp_frame

\* The text has no more lines: the document is saved.
LayoutEnds ==
  /\ tp_pc = "lines"
  /\ tp_text # << >>
  /\ tp_pc' = "done"
  /\ UNCHANGED << tp_fn, tp_text, tp_page, tp_yPosition, tp_drawn >>
  /\ UNCHANGED tp_frame

\* The blob is returned; the next call can be made.
LayoutReturns ==
  /\ tp_pc = "done"
  /\ tp_pc' = "idle"
  /\ tp_fn' = "none"
  /\ tp_text' = << >>
  /\ tp_page' = 0
  /\ tp_yPosition' = 0
  /\ tp_drawn' = << >>
  /\ UNCHANGED tp_frame

LayoutNext ==
  \/ TextToPdf
  \/ DocxToPdf
  \/ \E words \in TextLines : LayoutLine(words)
  \/ LayoutEnds
  \/ LayoutReturns
----------------------------------------------------------------------------
(* Specifications.                                                         *)

\* Nothing is running, no key is stored, no transcoder was constructed; the
\* context is cross-origin isolated or it is not.
AllIdle ==
  /\ ConvertIdle /\ RetryIdle /\ OcrIdle /\ ocr_store = null
  /\ MediaIdle /\ md_sab \in BOOLEAN
  /\ PostprocessIdle /\ PdfIdle
  /\ ThresholdIdle /\ PageIdle /\ LayoutIdle

ConvertInit == AllIdle

\* convertFile called over and over, one call at a time.
SpecConvert == ConvertInit /\ [][ConvertNext]_vars

RetryInit == AllIdle

\* withRetry called over and over with an operation that may fail or succeed.
SpecRetry == RetryInit /\ [][RetryNext]_vars

OcrInit == AllIdle

\* extractTextFromImage called over and over, while the stored key may change.
SpecOCR == OcrInit /\ [][OcrNext]_vars


MediaInit == AllIdle

\* The media strategies called one at a time.
SpecMedia == MediaInit /\ [][MediaNext]_vars

\* All but the last two media calls were made and have settled: convertAudio
\* calls, which leave the transcoder untouched, or successful transcoder
\* calls, which leave it loaded (in a cross-origin isolated context).
MediaConcurrentInit ==
  /\ ConvertIdle /\ RetryIdle /\ OcrIdle /\ ocr_store = null /\ PostprocessIdle /\ PdfIdle
  /\ ThresholdIdle /\ PageIdle /\ LayoutIdle
  /\ CallersIdle
  /\ md_started = MaxMediaCalls - 2
  /\ \/ TranscoderUntouched /\ md_sab \in BOOLEAN
     \/ TranscoderLoaded /\ md_sab = TRUE

\* The media strategies called by two callers at once, after a first call.
SpecMediaConcurrent == MediaConcurrentInit /\ [][MediaConcurrentNext]_vars

PostprocessInit == AllIdle

\* postprocessText called over and over, on every text up to MaxTextLen.
SpecPostprocess == PostprocessInit /\ [][PostprocessNext]_vars

PdfInit == AllIdle

\* pdfToText and extractTextFromPDF called over and over, one call at a time.
SpecPdf == PdfInit /\ [][PdfNext]_vars

ThresholdInit == AllIdle

\* estimateThreshold and applyContrastAndThreshold called over and over, on
\* every buffer of up to MaxPixels pixels.
SpecThreshold == ThresholdInit /\ [][ThresholdNext]_vars

PageInit == AllIdle

\* The convert page shown, used and left, over and over.
SpecPage == PageInit /\ [][PageNext]_vars

LayoutInit == AllIdle

\* textToPdf and docxToPdf called over and over, one call at a time.
SpecLayout == LayoutInit /\ [][LayoutNext]_vars
----------------------------------------------------------------------------
(* Properties of convertFile, checked under SpecConvert.                   *)

\* The pairs listed in the capability table, read off the table itself.
TablePairs ==
  UNION { { <<CONVERSION_OPTIONS[i].from, CONVERSION_OPTIONS[i].to[j]>> :
              j \in 1..Len(CONVERSION_OPTIONS[i].to) } : i \in 1..Len(CONVERSION_OPTIONS) }

Called == cf_pc \in {"awaiting", "settled"}

Failed == cf_pc = "settled" /\ cf_outcome.kind = "error"

\* C1: a pair that is not in the capability table makes convertFile fail with
\* a ConversionError before any strategy is invoked and before the file's
\* bytes are read; a strategy is only ever invoked for a pair of the table.
C1_UnsupportedPairRejectedFirst ==
  /\ (Called /\ <<cf_source, cf_target>> \notin TablePairs) =>
       /\ Failed
       /\ cf_outcome.error.cls = "ConversionError"
       /\ cf_outcome.error.template =
            "Conversion from ${sourceFormat} to ${targetFormat} is not supported"
       /\ cf_calls = <<>>
       /\ ~cf_bytesRead
  /\ (cf_calls # <<>>) => <<cf_source, cf_target>> \in TablePairs

\* C1 witness: gif to txt (target not in gif's list) was called and rejected.
C1_Witness ==
  /\ Failed
  /\ cf_source = gif /\ cf_target = txt
  /\ cf_file.name = <<"a", ".">> \o gif
  /\ cf_calls = <<>>

\* The extension as the claim C2 defines it: the text after the last dot, in
\* lower case; a name without a dot has none.
HasDot(name) == \E i \in 1..Len(name) : name[i] = "."

ExtensionMatches(name, sourceFormat) ==
  /\ HasDot(name)
  /\ toLowerCase(splitPop(name)) \in
       {sourceFormat} \cup (IF sourceFormat \in {jpg, jpeg} THEN {jpg, jpeg} ELSE {})

IsMismatchError(e) ==
  /\ e.cls = "ConversionError"
  /\ e.template =
       "File extension .${extension} does not match declared source format ${sourceFormat}"

\* C2: for a supported pair, a file whose extension is neither sourceFormat
\* nor its jpg/jpeg alias makes convertFile fail with the format-mismatch
\* error and no strategy is invoked, names without a dot and names that end
\* in a dot included; a file whose extension matches passes the check.
C2_MismatchedExtensionRejected ==
  (Called /\ <<cf_source, cf_target>> \in TablePairs) =>
    IF ExtensionMatches(cf_file.name, cf_source)
    THEN ~(Failed /\ IsMismatchError(cf_outcome.error))
    ELSE /\ Failed
         /\ IsMismatchError(cf_outcome.error)
         /\ cf_calls = <<>>

\* C3: every ConversionError convertFile fails with carries the call's format
\* pair in its sourceFormat and targetFormat fields.
C3_ErrorCarriesFormatPair ==
  (Failed /\ cf_outcome.error.cls = "ConversionError") =>
    /\ cf_outcome.error.sourceFormat = cf_source
    /\ cf_outcome.error.targetFormat = cf_target

\* C4: a caught value that is no ConversionError is wrapped into a
\* ConversionError that carries the call's pair and, when the value is an
\* Error, quotes its message; a caught ConversionError is rethrown as it is;
\* convertFile fails with nothing but a ConversionError.
C4_StrategyErrorsNormalised ==
  /\ (Failed /\ cf_thrown.cls # "none") =>
       IF cf_thrown.cls = "ConversionError"
       THEN cf_outcome.error = cf_thrown
       ELSE /\ cf_outcome.error.cls = "ConversionError"
            /\ cf_outcome.error.sourceFormat = cf_source
            /\ cf_outcome.error.targetFormat = cf_target
            /\ (cf_thrown.cls = "Error") => cf_outcome.error.cause = cf_thrown.template
  /\ Failed => cf_outcome.error.cls = "ConversionError"
  /\ (cf_pc = "settled" /\ cf_thrown.cls # "none") => Failed

\* C4 witness: a strategy rejected with an Error and the call failed with the
\* wrapper that quotes its message.
C4_Witness ==
  /\ Failed
  /\ cf_calls # <<>>
  /\ cf_thrown = PlainError("strategy failed")
  /\ cf_outcome.error.cause = "strategy failed"

\* C5: a pair of the table whose file passes the extension check and that no
\* routing rule matches fails with the "not yet implemented" ConversionError
\* that names the pair; no strategy is invoked and no result is returned.
C5_UnroutedPairNotImplemented ==
  ( /\ Called
    /\ <<cf_source, cf_target>> \in TablePairs
    /\ ensureFileMatchesFormat(cf_file, cf_source).cls = "none"
    /\ matchingRules(cf_source, cf_target) = {} ) =>
      /\ Failed
      /\ cf_outcome.error.cls = "ConversionError"
      /\ cf_outcome.error.template =
           "Conversion from ${sourceFormat} to ${targetFormat} is not yet implemented"
      /\ cf_outcome.error.from = cf_source
      /\ cf_outcome.error.to = cf_target
      /\ cf_calls = <<>>

\* C5 witness: txt to docx, listed in the table, with a matching file.
C5_Witness ==
  /\ Failed
  /\ cf_source = txt /\ cf_target = docx
  /\ cf_file.name = <<"a", ".">> \o txt
  /\ cf_thrown.cls = "ConversionError"

\* The strategy the claim C6 names for a pair, "none" where it names none.
DocumentRoutine(sourceFormat, targetFormat) ==
  CASE sourceFormat = docx /\ targetFormat = pdf  -> "docxToPdf"
    [] sourceFormat = docx /\ targetFormat = txt  -> "docxToText"
    [] sourceFormat = txt  /\ targetFormat = pdf  -> "textToPdf"
    [] sourceFormat = pdf  /\ targetFormat \in {jpg, png} -> "pdfToImages"
    [] sourceFormat = pdf  /\ targetFormat = txt  -> "pdfToText"
    [] sourceFormat = pdf  /\ targetFormat = docx -> "pdfToDocx"
    [] OTHER -> "none"

ClaimedStrategy(sourceFormat, targetFormat) ==
  LET image == {jpg, jpeg, png, webp, gif}
      audio == {mp3, wav, ogg, aac, flac, m4a}
      video == {mp4, webm, avi, mov, mkv, flv}
  IN  CASE sourceFormat \in {docx, txt, pdf} -> DocumentRoutine(sourceFormat, targetFormat)
        [] sourceFormat \in image /\ targetFormat = pdf    -> "imageToPdf"
        [] sourceFormat \in image /\ targetFormat = txt    -> "imageToText"
        [] sourceFormat \in image /\ targetFormat \in image -> "convertImage"
        [] sourceFormat \in audio /\ targetFormat \in audio -> "convertAudio"
        [] sourceFormat \in video /\ targetFormat \in audio -> "extractAudioFromVideo"
        [] sourceFormat \in video /\ targetFormat \in video -> "convertVideo"
        [] OTHER -> "none"

NoPairMatchesTwoRules ==
  \A sourceFormat \in FormatArguments, targetFormat \in FormatArguments :
    Cardinality(matchingRules(sourceFormat, targetFormat)) <= 1

\* C6: a call that passes both validations and matches a routing rule invokes
\* exactly one strategy, once, with the caller's file, and it is the strategy
\* the routing table of the claim names for the pair; no pair matches two rules.
C6_ExactlyOneStrategy ==
  /\ ( /\ Called
       /\ assertSupportedConversion(cf_source, cf_target).cls = "none"
       /\ ensureFileMatchesFormat(cf_file, cf_source).cls = "none"
       /\ matchingRules(cf_source, cf_target) # {} ) =>
         /\ Len(cf_calls) = 1
         /\ cf_calls[1].strategy = ClaimedStrategy(cf_source, cf_target)
         /\ cf_calls[1].strategy \in Strategies
         /\ cf_calls[1].file = cf_file
  /\ Len(cf_calls) <= 1
  /\ NoPairMatchesTwoRules

\* C6 witness: sample.jpg to pdf went through imageToPdf, once, and returned.
C6_Witness ==
  /\ cf_pc = "settled"
  /\ cf_outcome = Resolved("imageToPdf")
  /\ cf_source = jpg /\ cf_target = pdf
  /\ cf_calls = << [strategy |-> "imageToPdf", file |-> cf_file, target |-> undefined] >>


----------------------------------------------------------------------------
(* Properties of withRetry, checked under SpecRetry.                       *)

RejectedCalls == { i \in 1..Len(wr_calls) : wr_calls[i].outcome = "rejected" }

\* The invocation counts of claim C7: k failures and then a success make k+1
\* invocations, k <= N, and the success value is returned; failures only make
\* N+1 invocations.  A settled call has no invocation pending.
RetryCounts ==
  /\ wr_pc = "returned" =>
       /\ Len(wr_calls) = Cardinality(RejectedCalls) + 1
       /\ Cardinality(RejectedCalls) <= wr_options.retries
       /\ RejectedCalls = 1..(Len(wr_calls) - 1)
       /\ wr_calls[Len(wr_calls)].outcome = "resolved"
       /\ wr_result = Returned(wr_calls[Len(wr_calls)].value)
  /\ wr_pc = "threw" =>
       /\ Len(wr_calls) = wr_options.retries + 1
       /\ RejectedCalls = 1..Len(wr_calls)
       /\ wr_result.kind = "error"

\* C7 as stated: with the counts above, a withRetry whose operation fails on
\* every invocation fails with the error raised by the last invocation.
C7_FailsWithLastError ==
  /\ RetryCounts
  /\ wr_pc = "threw" => wr_result.error = wr_calls[Len(wr_calls)].error

\* C7 as amended: it fails with the value the last invocation raised when that
\* value is an Error, and with a new Error "Operation failed after retries"
\* when it is not.
C7_FailsWithLastErrorOrGeneric ==
  /\ RetryCounts
  /\ wr_pc = "threw" =>
       LET last == wr_calls[Len(wr_calls)].error
       IN  IF last.cls \in {"Error", "ConversionError", "OCRServiceError"}
           THEN wr_result.error = last
           ELSE /\ wr_result.error.cls = "Error"
                /\ wr_result.error.template = "Operation failed after retries"

\* C7 witness: retries 2, three invocations, the last one rejected with a
\* value that is no Error, and withRetry threw.
C7_Witness ==
  /\ wr_pc = "threw"
  /\ wr_options.retries = 2
  /\ Len(wr_calls) = 3
  /\ wr_calls[3].error.cls = "Event"
  /\ wr_calls[1].error.cls = "Error"

\* C8: after the k-th failed attempt withRetry waits delayMs * k, attempt k+1
\* starts only when that wait has elapsed, and no wait follows the final
\* failed attempt: the error is raised at once.
C8_LinearBackoff ==
  /\ \A k \in 1..Len(wr_waits) :
       /\ wr_waits[k].delay = wr_options.delayMs * k
       /\ wr_waits[k].set = wr_calls[k].end
       /\ wr_calls[k].outcome = "rejected"
  /\ \A k \in 1..(Len(wr_calls) - 1) :
       wr_calls[k + 1].start >= wr_calls[k].end + wr_options.delayMs * k
  /\ Len(wr_waits) <= wr_options.retries
  /\ wr_pc = "waiting" => Len(wr_waits) = Len(wr_calls)
  /\ wr_pc \in {"calling", "returned", "threw"} => Len(wr_waits) = Len(wr_calls) - 1
  /\ wr_pc = "threw" => wr_now = wr_calls[Len(wr_calls)].end

\* C8 witness: retries 2 and delayMs 2, waits of 2 and 4 ms, then the third
\* failure raised the error.
C8_Witness ==
  /\ wr_pc = "threw"
  /\ wr_options = [retries |-> 2, delayMs |-> 2]
  /\ Len(wr_calls) = 3
  /\ Len(wr_waits) = 2
  /\ wr_waits[2].delay = 4
  /\ wr_calls[3].start >= wr_calls[2].end + 4

----------------------------------------------------------------------------
(* Properties of extractTextFromImage, checked under SpecOCR.              *)

EventsAt(ev) == { i \in 1..Len(ocr_trace) : ocr_trace[i].ev = ev }

\* What can go wrong before the fallback recognizer: pre-processing, the
\* retry wrapper giving up on the remote requests, post-processing.
PrimaryFailures ==
  EventsAt("preprocessImage:rejected") \cup EventsAt("withRetry:threw")
    \cup EventsAt("postprocessText:threw")

LastEvent == ocr_trace[Len(ocr_trace)].ev

\* C9: extractTextFromImage fails only when a run of the fallback recognizer
\* raised; whatever else fails, the fallback recognizer is run before any
\* error reaches the caller, and when that run succeeds its result is
\* returned.
C9_FailsOnlyWhenFallbackRaises ==
  /\ ocr_pc = "failed" =>
       /\ LastEvent = "fallbackOCR:rejected"
       /\ ocr_outcome = OcrFailure(OCRServiceError("OCR extraction failed"))
  /\ \A i \in PrimaryFailures :
       \E j \in EventsAt("fallbackOCR") : j > i
  /\ (ocr_trace # <<>> /\ LastEvent = "fallbackOCR:resolved") =>
       /\ ocr_pc = "done"
       /\ ocr_outcome = OcrResult("tesseract")
  /\ ocr_outcome.kind = "error" => ocr_pc = "failed"

\* C9 witness: the remote recognition failed on every attempt, the fallback
\* recognizer ran after that and its result was returned.
C9_Witness ==
  /\ ocr_pc = "done"
  /\ ocr_outcome = OcrResult("tesseract")
  /\ EventsAt("withRetry:threw") # {}
  /\ Len(wr_calls) = DEFAULT_RETRY_ATTEMPTS + 1

\* The getter returned no key in this invocation: null or the empty string.
GetterReturnedNoKey ==
  \E i \in EventsAt("getDeepSeekApiKey") : ocr_trace[i].arg \in {null, <<>>}

\* C10: when the credential getter returns no API key, the invocation issues
\* no upload and no parse request and never enters withRetry; it runs the
\* fallback recognizer, and no error it fails with is about the missing key.
C10_NoKeyNoRemoteRequest ==
  GetterReturnedNoKey =>
    /\ EventsAt("upload") = {}
    /\ EventsAt("parse") = {}
    /\ EventsAt("withRetry") = {}
    /\ wr_pc = "idle"
    /\ EventsAt("fallbackOCR") # {}
    /\ ocr_outcome.kind = "error" =>
         /\ LastEvent = "fallbackOCR:rejected"
         /\ ocr_outcome.error = OCRServiceError("OCR extraction failed")

\* C10 witness: the stored key is the empty string, the image was enhanced,
\* and the fallback recognizer's result was returned.
C10_Witness ==
  /\ ocr_pc = "done"
  /\ ocr_outcome = OcrResult("tesseract")
  /\ \E i \in EventsAt("getDeepSeekApiKey") : ocr_trace[i].arg = <<>>
  /\ ocr_options.enhanceImage


\* The phase an event of the trace belongs to, in the order of the
\* invocation's state machine.
PhaseOf(ev) ==
  IF ev \in {"preprocessImage", "preprocessImage:resolved", "preprocessImage:rejected"} THEN 1
  ELSE IF ev \in {"getDeepSeekApiKey", "withRetry", "upload", "parse",
                  "runDeepSeekOCR:rejected", "withRetry:threw", "withRetry:returned"} THEN 2
  ELSE IF ev \in {"fallbackOCR", "fallbackOCR:resolved", "fallbackOCR:rejected"} THEN 3
  ELSE 4

\* The events that start a recognizer: a remote attempt or the fallback.
RecognizerStarts == EventsAt("upload") \cup EventsAt("fallbackOCR")

\* C11: within one invocation the phases occur in the order pre-processing,
\* primary recognition, fallback recognition, post-processing; the fallback
\* recognizer is run at most once, and once a fallback run has raised no
\* recognizer is started again and the invocation fails.
C11_PhasesInOrderFallbackOnce ==
  /\ \A i, j \in 1..Len(ocr_trace) :
       i < j => PhaseOf(ocr_trace[i].ev) <= PhaseOf(ocr_trace[j].ev)
  /\ Cardinality(EventsAt("fallbackOCR")) <= 1
  /\ \A i \in EventsAt("fallbackOCR:rejected") :
       /\ \A j \in RecognizerStarts : j < i
       /\ i = Len(ocr_trace) /\ ocr_pc = "failed"

----------------------------------------------------------------------------
(* Properties of the media strategies, checked under SpecMedia and         *)
(* SpecMediaConcurrent.                                                    *)

\* The call of p has done ev.
did(p, ev) == \E i \in 1..Len(md_trace[p]) : md_trace[p][i] = ev

\* How many times the call of p has done ev.
times(p, ev) == Cardinality({ i \in 1..Len(md_trace[p]) : md_trace[p][i] = ev })

TranscoderFunctions == {"extractAudioFromVideo", "convertVideo"}

\* The step starts a call of a strategy that uses the transcoder.
TranscoderCallStarts ==
  /\ md_pc[1] = "idle"
  /\ md_pc'[1] # "idle"
  /\ md_call'[1].fn \in TranscoderFunctions

\* C12: over calls made one after the other, the transcoder is constructed
\* at most once and only by a call that uses it, it is never replaced, its
\* load succeeds at most once, and once it is loaded every call that uses it
\* gets that same instance at once, without load being invoked again.
C12_TranscoderConstructedAndLoadedOnce ==
  /\ [](ff_news <= 1 /\ ff_loadOks <= 1 /\ ff_loadOks <= ff_loadCalls)
  /\ [][ /\ ff_news' # ff_news => TranscoderCallStarts
         /\ ffmpegInstance # {} => ffmpegInstance' = ffmpegInstance
         /\ ffmpegLoaded => ffmpegLoaded' /\ ff_loadCalls' = ff_loadCalls
         /\ (ffmpegLoaded /\ TranscoderCallStarts) =>
              /\ md_ffmpeg'[1] = ffmpegInstance
              /\ md_pc'[1] = "write" ]_vars

\* C12 witness: a later call got the loaded transcoder back and returned the
\* transcoder's output.
C12_Witness ==
  /\ md_started >= 2
  /\ ffmpegLoaded /\ ff_loadCalls = 1
  /\ did(1, "getFFmpeg:reused")
  /\ md_pc[1] = "settled"
  /\ md_outcome[1].kind = "blob" /\ md_outcome[1].by = "ffmpeg"

\* C13: where SharedArrayBuffer is undefined, every getFFmpeg call throws
\* the isolation error at once: load is never invoked, the transcoder is
\* never marked as loaded, and the call's catch block gets that error as the
\* first thing that happens after getFFmpeg was called.
C13_NoIsolationNoLoad ==
  ~md_sab =>
    /\ ff_loadCalls = 0
    /\ ~ffmpegLoaded
    /\ \A p \in Procs :
         md_call[p].fn \in TranscoderFunctions =>
           /\ Len(md_trace[p]) >= 2
           /\ md_trace[p][1] = "getFFmpeg"
           /\ md_trace[p][2] = "getFFmpeg:threw"
           /\ md_caught[p] = MediaError(SharedArrayBufferMessage)
           /\ md_ffmpeg[p] = {}
           /\ ~did(p, "toBlobURL") /\ ~did(p, "load") /\ ~did(p, "writeFile")

\* C13 witness: without isolation, a call after the first one has failed
\* with the isolation error.
C13_Witness ==
  /\ ~md_sab
  /\ md_started >= 2
  /\ md_call[1].fn = "convertVideo"
  /\ md_pc[1] = "settled"
  /\ md_caught[1] = MediaError(SharedArrayBufferMessage)
  /\ md_outcome[1].kind = "error"

\* C14: once the transcoder path of an extractAudioFromVideo or convertVideo
\* call has failed, the call attempts no other conversion path, and it
\* settles with an error and no blob.
C14_TranscoderFailureIsTerminal ==
  \A p \in Procs :
    (md_call[p].fn \in TranscoderFunctions /\ did(p, "transcoder:failed")) =>
      /\ ~did(p, "extractAudioWithBrowserAPI")
      /\ md_pc[p] = "settled"
      /\ md_outcome[p].kind = "error"

\* C15: when the Web Audio path of a convertAudio call has failed, exactly
\* one attempt through the transcoder is made before the call settles, and
\* the call returns the transcoder's blob when that attempt succeeds.
C15_AudioFallsBackToTranscoder ==
  \A p \in Procs :
    (md_call[p].fn = "convertAudio" /\ did(p, "native:rejected") /\ md_pc[p] = "settled") =>
      /\ times(p, "getFFmpeg") = 1
      /\ md_outcome[p].kind = "error" => did(p, "transcoder:failed")
      /\ md_outcome[p].kind = "blob" => md_outcome[p].by = "ffmpeg"

\* What convertFile settles with for the settled extractAudioFromVideo call
\* of p: the file's extension is the declared source format.
C16_ConvertFileOutcome(p) ==
  viaConvertFile(md_outcome[p], md_call[p].file, inputExt(md_call[p].file),
                 md_call[p].targetFormat)

\* C16: a video-to-audio conversion requested through convertFile where
\* SharedArrayBuffer is undefined fails, produces no blob, and its error
\* message includes the SharedArrayBuffer text the convert page looks for.
C16_IsolationErrorReachesCaller ==
  \A p \in Procs :
    (~md_sab /\ md_call[p].fn = "extractAudioFromVideo" /\ md_pc[p] = "settled") =>
      /\ C16_ConvertFileOutcome(p).kind = "error"
      /\ includesSharedArrayBuffer(C16_ConvertFileOutcome(p).error.cause)

\* Both callers are inside a transcoder call that got the loaded transcoder.
BothOnLoadedTranscoder ==
  \A p \in Procs :
    /\ md_call[p].fn \in TranscoderFunctions
    /\ did(p, "getFFmpeg:reused")

\* C17: two transcoder calls running at once on the loaded transcoder do not
\* interfere: neither overwrites, reads or deletes a file the other wrote,
\* and what each reads back was produced from its own input.
C17_ConcurrentCallsDoNotInterfere ==
  BothOnLoadedTranscoder =>
    \A p \in Procs :
      /\ md_foreign[p] = {}
      /\ \A f \in md_data[p] : f.origin = p
      /\ md_outcome[p].kind = "blob" => md_outcome[p].origin = {p}

----------------------------------------------------------------------------
(* Properties of postprocessText, checked under SpecPostprocess.           *)

\* The text holds n consecutive characters c somewhere.
hasRun(s, c, n) == \E i \in 1..(Len(s) - n + 1) : \A k \in i..(i + n - 1) : s[k] = c

\* C20: the text postprocessText returns holds no three consecutive line
\* breaks and no two consecutive spaces, whatever the input (blank lines
\* made of spaces or tabs included); its lines and the text as a whole have
\* no white space at either end.
C20_PostprocessedTextIsNormalised ==
  pp_pc = "returned" =>
    /\ ~hasRun(pp_result, "\n", 3)
    /\ ~hasRun(pp_result, " ", 2)
    /\ trimLines(pp_result) = pp_result
    /\ trim(pp_result) = pp_result

----------------------------------------------------------------------------
(* Properties of pdfToText and extractTextFromPDF, checked under SpecPdf.  *)

\* The texts of the pages from page i on, with a blank line between
\* consecutive pages.
RECURSIVE pagesJoined(_, _)
pagesJoined(document, i) ==
  IF i > Len(document) THEN <<>>
  ELSE IF i = Len(document) THEN joinItems(document[i])
  ELSE joinItems(document[i]) \o LineBreaks \o pagesJoined(document, i + 1)

\* C18: pdfToText returns the text of every page, in page order, with a
\* blank line between consecutive pages; it hands no page to OCR; and it
\* returns the empty string when no page has a text item.
C18_PdfTextIsPagesJoined ==
  (px_fn = "pdfToText" /\ px_pc = "done") =>
    /\ px_result.text \in { pagesJoined(px_pdf, 1), pagesJoined(px_pdf, 1) \o LineBreaks }
    /\ px_ocrPages = <<>>
    /\ (\A i \in 1..Len(px_pdf) : px_pdf[i] = NoItems) => px_result.text = <<>>

\* The page has a character that is no white space.
HasInk(page) ==
  \E k \in 1..Len(page) : \E j \in 1..Len(page[k]) : page[k][j] \notin {" ", "\t", "\n"}

NoPageHasInk == \A i \in 1..Len(px_pdf) : ~HasInk(px_pdf[i])

----------------------------------------------------------------------------
(* Claims about the threshold computation.                                 *)

\* The pixels of a buffer, first to last, as [r, g, b, a].
pixelsOf(data) ==
  [p \in 1..(Len(data) \div 4) |->
     [r |-> data[4 * p - 3], g |-> data[4 * p - 2], b |-> data[4 * p - 1], a |-> data[4 * p]]]

\* 0.299R + 0.587G + 0.114B, in thousandths.
luminance(px) == 299 * px.r + 587 * px.g + 114 * px.b

RECURSIVE totalLuminance(_, _)
totalLuminance(pxs, n) == IF n = 0 THEN 0 ELSE luminance(pxs[n]) + totalLuminance(pxs, n - 1)

\* The estimate is 128 for the empty buffer and the mean luminance otherwise.
isMeanLuminance(threshold, data) ==
  IF Len(data) = 0 THEN threshold.num = 128000 * threshold.den
  ELSE threshold.num * Len(pixelsOf(data))
         = totalLuminance(pixelsOf(data), Len(pixelsOf(data))) * threshold.den

\* Every channel of the pixel is below the middle of the range / at or above it.
isDark(px)   == px.r < 128 /\ px.g < 128 /\ px.b < 128
isBright(px) == px.r >= 128 /\ px.g >= 128 /\ px.b >= 128

\* C21: estimateThreshold returns 128 for an empty pixel buffer and otherwise
\* the mean luminance over all pixels; applyContrastAndThreshold returns a
\* buffer of the same length in which every pixel has R = G = B, 255 when the
\* pixel's contrast-stretched luminance is at least the threshold and 0
\* otherwise, and the alpha of the input pixel; with the estimated threshold a
\* dark pixel next to a bright pixel becomes (0,0,0) and the bright one
\* (255,255,255).
C21_ThresholdingIsBlackAndWhite ==
  /\ th_pc = "estimated" => isMeanLuminance(th_threshold, th_data)
  /\ th_pc = "applied" =>
       /\ Len(th_output) = Len(th_data)
       /\ \A p \in 1..Len(pixelsOf(th_data)) :
            LET in  == pixelsOf(th_data)[p]
                out == pixelsOf(th_output)[p]
                stretched == contrastedGray(th_data, 4 * p - 3, factor(th_contrast))
            IN  /\ out.r = out.g /\ out.g = out.b
                /\ out.r = IF atLeast(stretched, factor(th_contrast).den, th_threshold)
                           THEN 255 ELSE 0
                /\ out.a = in.a
       /\ ( th_threshold = estimateThreshold(th_data) /\ Len(pixelsOf(th_data)) = 2 ) =>
            \A p, q \in 1..2 :
              ( isDark(pixelsOf(th_data)[p]) /\ isBright(pixelsOf(th_data)[q]) ) =>
                /\ SubSeq(th_output, 4 * p - 3, 4 * p - 1) = << 0, 0, 0 >>
                /\ SubSeq(th_output, 4 * q - 3, 4 * q - 1) = << 255, 255, 255 >>

\* The test's buffer [10,10,10,255, 240,240,240,255] was thresholded at its
\* own estimate with contrast 1.
C21_Witness ==
  /\ th_pc = "applied"
  /\ th_data = << 10, 10, 10, 255, 240, 240, 240, 255 >>
  /\ th_contrast = 10
  /\ th_threshold = Fraction(250000, 2)
  /\ th_output = << 0, 0, 0, 255, 255, 255, 255, 255 >>

----------------------------------------------------------------------------
(* Claims about the convert page.                                          *)

TerminalStatuses == { "completed", "error" }

\* The status changes the claim allows.
StatusSteps ==
  { << "idle", "converting" >>, << "converting", "completed" >>, << "converting", "error" >> }

\* The job is the one of the page shown before and after the step.
sameJob == pg_pc # "unmounted" /\ pg_pc' # "unmounted"

\* C22: the status of a conversion job changes only along idle -> converting
\* -> completed or error; once completed or error is reached, status,
\* progress, result and error message stay as they are; progress is 100 only
\* when completed and never exceeds 90 while converting.
C22_JobLifecycle ==
  /\ [](pg_progress = 100 => pg_status = "completed")
  /\ [](pg_status = "converting" => pg_progress <= 90)
  /\ [][ /\ ( pg_status' # pg_status /\ pg_pc' # "unmounted" ) =>
              << pg_status, pg_status' >> \in StatusSteps
         /\ ( sameJob /\ pg_status \in TerminalStatuses ) =>
              UNCHANGED << pg_status, pg_progress, pg_resultBlob, pg_error >> ]_vars

\* The name with the part after its last dot replaced by the target format;
\* a name without a dot has the target format appended after a dot.
replacedExtension(name, targetFormat) ==
  ( IF \E i \in 1..Len(name) : name[i] = "."
    THEN SubSeq(name, 1, (CHOOSE i \in 1..Len(name) :
                            name[i] = "." /\ \A j \in (i + 1)..Len(name) : name[j] # ".") - 1)
    ELSE name ) \o << "." >> \o targetFormat

\* C23: the download of a completed conversion is named by replacing the
\* part of the file name after its last dot with the target format and
\* keeping the rest of the name, for every file name.
C23_DownloadReplacesExtension ==
  pg_download # undefined => pg_download = replacedExtension(pg_file.name, pg_target)

----------------------------------------------------------------------------
(* Claims about the wrap and paginate loops.                               *)

\* The words of a sequence of lines that are not empty, in order.
RECURSIVE inkWords(_, _)
inkWords(lines, n) ==
  IF n = 0 THEN << >>
  ELSE inkWords(lines, n - 1) \o SelectSeq(lines[n], LAMBDA w : w.text # "")

\* The words of the text, each with its place.
placed(lines) ==
  [l \in 1..Len(lines) |-> [i \in 1..Len(lines[l]) |-> Word(l, i, lines[l][i])]]

\* The drawn line does not reach below the bottom margin: in textToPdf y
\* runs up from the bottom of the page, in docxToPdf down from its top.
aboveBottomMargin(fn, d) ==
  IF fn = "textToPdf" THEN d.y >= pageOf(fn).margin
  ELSE d.y + pageOf(fn).lineHeight <= pageOf(fn).pageHeight - pageOf(fn).margin

\* C27: in the text-to-PDF and DOCX-to-PDF loops a line is never drawn past
\* the bottom margin, a drawn line is wider than the printable width only if
\* it is a single word, and the words are drawn in input order, none dropped.
C27_LinesFitPageAndKeepWords ==
  tp_pc = "done" =>
    /\ \A k \in 1..Len(tp_drawn) :
         /\ aboveBottomMargin(tp_fn, tp_drawn[k])
         /\ textWidth(tp_drawn[k].words, pageOf(tp_fn)) > 10 * maxWidth(pageOf(tp_fn))
              => Len(tp_drawn[k].words) = 1
         /\ k > 1 => \/ tp_drawn[k].page = tp_drawn[k - 1].page
                     \/ tp_drawn[k].page = tp_drawn[k - 1].page + 1
    /\ inkWords([k \in 1..Len(tp_drawn) |-> tp_drawn[k].words], Len(tp_drawn))
         = inkWords(placed(tp_text), Len(tp_text))

\* A text ran over the first page, and its last line was wrapped after a
\* word wider than the printable width.
C27_Witness ==
  /\ tp_pc = "done"
  /\ Len(tp_drawn) > 0
  /\ tp_drawn[Len(tp_drawn)].page = 2
  /\ \E k \in 1..Len(tp_drawn) :
       /\ textWidth(tp_drawn[k].words, pageOf(tp_fn)) > 10 * maxWidth(pageOf(tp_fn))
       /\ k < Len(tp_drawn)
       /\ tp_drawn[k + 1].words[1].line = tp_drawn[k].words[1].line

----------------------------------------------------------------------------
(* Further properties of the transcoder guard and of the transcoder calls. *)

\* The step starts a call of p to a strategy that uses the transcoder.
TranscoderCallStartsBy(p) ==
  /\ md_pc[p] = "idle"
  /\ md_pc'[p] # "idle"
  /\ md_call'[p].fn \in TranscoderFunctions

\* C24: two media calls that reach getFFmpeg before the transcoder has
\* finished loading are not serialised: each passes the loaded check, whatever
\* the other is waiting for, and invokes load on the shared instance, which
\* is constructed only once.
C24_ConcurrentFirstLoadsBothLoad ==
  /\ [](ff_news <= 1)
  /\ [](\A p \in Procs : md_pc[p] \in {"toBlobURL", "load"} => ffmpegInstance = {1})
  /\ [][ \A p \in Procs :
           /\ ( TranscoderCallStartsBy(p) /\ ~ffmpegLoaded /\ md_sab ) =>
                md_pc'[p] = "toBlobURL"
           /\ ( md_pc[p] = "toBlobURL" /\ md_pc'[p] = "load" ) =>
                ff_loadCalls' = ff_loadCalls + 1 ]_vars

\* C24 witness: both callers are waiting for a load they invoked on the one
\* instance.
C24_Witness ==
  /\ \A p \in Procs : md_pc[p] = "load"
  /\ ff_loadCalls = 2
  /\ ff_news = 1
  /\ ~ffmpegLoaded

\* The requests the call of p has made to the transcoder's file system and
\* to exec, in order.
transcoderRequests(p) ==
  SelectSeq(md_trace[p], LAMBDA ev : ev \in {"writeFile", "exec", "readFile", "deleteFile"})

\* The call of p has returned the transcoder's output.
returnedTranscoderOutput(p) ==
  /\ md_call[p].fn \in TranscoderFunctions
  /\ md_pc[p] = "settled"
  /\ md_outcome[p].kind = "blob"
  /\ md_outcome[p].by = "ffmpeg"

PrimaryImage ==
  IF EventsAt("preprocessImage:resolved") # {} THEN enhanced ELSE imageBlob

\* C26: in every extractTextFromImage invocation the fallback recognizer is
\* given the image the primary recognizer was, or would have been, given.
C26_FallbackGetsPrimaryImage ==
  \A i \in EventsAt("fallbackOCR") : ocr_trace[i].arg = PrimaryImage

\* The pair is listed in the capability table.
listed(sourceFormat, targetFormat) ==
  \E i \in 1..Len(CONVERSION_OPTIONS) :
    /\ CONVERSION_OPTIONS[i].from = sourceFormat
    /\ includes(CONVERSION_OPTIONS[i].to, targetFormat)

NotImplementedPairs == { << xlsx, pdf >>, << txt, docx >> }

\* C28: for a listed pair and a file of the declared format, convertFile
\* answers with the not-yet-implemented error exactly for xlsx->pdf and
\* txt->docx and calls a strategy for every other pair; the pdf->xlsx branch
\* is never taken, the pair being rejected as unsupported first.
C28_UnroutedListedPairs ==
  /\ ( /\ cf_pc # "idle"
       /\ listed(cf_source, cf_target)
       /\ ensureFileMatchesFormat(cf_file, cf_source).cls = "none" ) =>
         IF << cf_source, cf_target >> \in NotImplementedPairs
         THEN /\ cf_calls = << >>
              /\ cf_pc = "settled"
              /\ cf_thrown = notImplementedError(cf_source, cf_target)
              /\ cf_outcome = Rejected(notImplementedError(cf_source, cf_target))
         ELSE /\ Len(cf_calls) = 1
              /\ cf_calls[1].strategy \in Strategies
              /\ cf_thrown # notImplementedError(cf_source, cf_target)
  /\ cf_thrown # pdfToXlsxError(cf_source, cf_target)
  /\ ( cf_pc = "settled" /\ cf_source = pdf /\ cf_target = xlsx ) =>
       /\ ~listed(cf_source, cf_target)
       /\ cf_calls = << >>
       /\ cf_outcome = Rejected(assertSupportedConversion(cf_source, cf_target))

\* C28 witness: a text file was to become a DOCX file, and the call failed
\* with the not-yet-implemented error.
C28_Witness ==
  /\ cf_pc = "settled"
  /\ cf_source = txt /\ cf_target = docx
  /\ cf_file.name = << "a", "." >> \o txt
  /\ cf_outcome = Rejected(notImplementedError(txt, docx))

\* C29: the loaded flag is true only if a load on the instance has resolved;
\* the instance, once constructed, is never replaced; after a failed load the
\* flag stays false, and the next media call invokes load again on the same
\* instance and uses the transcoder only when that load has resolved.
C29_LoadedOnlyAfterLoadResolved ==
  /\ [](ffmpegLoaded => ( ff_loadOks >= 1 /\ ffmpegInstance # {} ))
  /\ [](\A p \in Procs : md_ffmpeg[p] # {} => ( ffmpegLoaded /\ md_ffmpeg[p] = ffmpegInstance ))
  /\ [][ /\ ffmpegInstance # {} => ffmpegInstance' = ffmpegInstance
         /\ ( ffmpegLoaded' /\ ~ffmpegLoaded ) => ff_loadOks' = ff_loadOks + 1
         /\ ( ~ffmpegLoaded /\ ff_loadOks' = ff_loadOks ) => ~ffmpegLoaded'
         /\ ( TranscoderCallStarts /\ ~ffmpegLoaded /\ md_sab ) =>
              /\ md_pc'[1] = "toBlobURL"
              /\ md_ffmpeg'[1] = {}
              /\ ff_news' = IF ffmpegInstance = {} THEN ff_news + 1 ELSE ff_news ]_vars

\* C29 witness: a load was rejected, the next call invoked load again on the
\* same instance, and got the transcoder when that load resolved.
C29_Witness ==
  /\ ff_loadCalls = 2
  /\ ff_loadOks = 1
  /\ ff_news = 1
  /\ ffmpegLoaded
  /\ md_pc[1] = "write"
  /\ md_ffmpeg[1] = ffmpegInstance

\* C30: after a transcoder call has terminated, with a result or with an
\* error, the transcoder's file system holds no input.* or output.* file the
\* call wrote.
C30_NoTemporaryFileLeft ==
  \A p \in Procs :
    ( md_call[p].fn \in TranscoderFunctions /\ md_pc[p] = "settled" ) =>
      \A n \in FsNames : \A f \in ff_fs[n] : f.writer # p
====
